---- MODULE Spec2Model ----
(***************************************************************************)
(* Model of the Temporal Terraform orchestrator: ParentWorkflow (the       *)
(* orchestrator), TerraformWorkflow (the per-workspace executor) and the   *)
(* signals between them (workspace-finished, start-child, shutdown).       *)
(***************************************************************************)
EXTENDS Integers, Sequences, FiniteSets, TLC

\* ------------------------------------------------------------------ bounds
\* Largest number of workspaces in a configuration.
MaxWorkspaces == 3
\* Number of distinct payloads per JSON type an output can carry.
MaxVal == 1
\* Number of signal deliveries the runtime may fail in one orchestration
\* although the target workflow is open.
MaxFaults == 1

\* ------------------------------------------------------------ configuration
Names == 1..MaxWorkspaces

\* JSON values: a type tag and a payload. Two values with the same payload and
\* different tags are different values.
JsonValues == {[type |-> t, val |-> v] : t \in {"string", "number"}, v \in 1..MaxVal}

\* The output name every workspace may or may not produce.
OutName == "out"

EmptyMap == [x \in {} |-> 0]

\* A Go map[string]interface{} as a function on the set of its keys.
OutputMaps == {EmptyMap} \cup {[x \in {OutName} |-> v] : v \in JsonValues}

\* Sequences over S without repeated elements.
SeqsNoDup(S) ==
  {s \in UNION {[1..k -> S] : k \in 0..Cardinality(S)} :
     \A a, b \in DOMAIN s : a # b => s[a] # s[b]}

\* dependsOn lists of n workspaces declared in dependency order.
DependsOnShapes(n) ==
  {d \in [1..n -> SeqsNoDup(1..(n - 1))] :
     \A i \in 1..n : \A k \in DOMAIN d[i] : d[i][k] < i}

SeqRange(s) == {s[k] : k \in DOMAIN s}

RECURSIVE Ancestors(_, _)
Ancestors(dependsOn, w) ==
  SeqRange(dependsOn[w]) \cup
    UNION {Ancestors(dependsOn, d) : d \in SeqRange(dependsOn[w])}

RECURSIVE SetToSeq(_)
SetToSeq(S) ==
  IF S = {} THEN <<>>
  ELSE LET m == CHOOSE x \in S : \A y \in S : x <= y
       IN <<m>> \o SetToSeq(S \ {m})

\* One input mapping per transitive dependency, in ascending order of source.
\* With shared targets every mapping of a workspace writes the same variable.
InputsOf(dependsOn, w, shared) ==
  LET srcs == SetToSeq(Ancestors(dependsOn, w))
  IN [k \in DOMAIN srcs |->
        [sourceWorkspace |-> srcs[k],
         sourceOutput    |-> OutName,
         targetVar       |-> IF shared THEN <<"var", 0>> ELSE <<"var", srcs[k]>>]]

\* Mutant: the default operations lack init.
DefaultOperations_WithoutInit == <<"validate", "plan", "apply">>

\* getDefaultOperations("terraform")
DefaultOperations == <<"init", "validate", "plan", "apply">>

\* InfrastructureConfig.Workspaces: a sequence of WorkspaceConfig, as
\* NormalizeInfrastructureConfig leaves it.
MkConfig(n, dependsOn, shared) ==
  [i \in 1..n |->
     [name       |-> i,
      kind       |-> "terraform",
      dir        |-> "/base/rel",
      dependsOn  |-> dependsOn[i],
      inputs     |-> InputsOf(dependsOn, i, shared),
      operations |-> DefaultOperations,
      extraVars  |-> EmptyMap]]

\* The configurations ValidateInfrastructureConfig accepts that the model runs.
ValidConfigs ==
  UNION {{MkConfig(n, d, s) : d \in DependsOnShapes(n), s \in BOOLEAN} :
           n \in 1..MaxWorkspaces}


\* ------------------------------------------------------ raw configurations
\* The configurations a caller may hand to ParentWorkflow, valid or not. A name
\* is a number, 0 is the blank name; names above the number of workspaces of a
\* configuration are names of no workspace.
MaxOps == 5
\* Largest dependency relation with which a whole orchestration is run from a
\* raw configuration.
MaxFullWorkspaces == 2

RawNames == 1..(MaxWorkspaces + 1)

RawWorkspace(name, kind, dir, dependsOn, inputs, operations) ==
  [name |-> name, kind |-> kind, dir |-> dir, dependsOn |-> dependsOn,
   inputs |-> inputs, operations |-> operations, extraVars |-> EmptyMap]

\* dependsOn lists of at most two names, known or not, the workspace itself
\* included.
RawDependsOn == {s \in SeqsNoDup(RawNames) : Len(s) <= 2}

\* At most one input mapping in a configuration: none (workspace 0), or one
\* declared by workspace w with any source.
RawInputs == {[w |-> 0, src |-> 0]} \cup {[w |-> w, src |-> s] : w \in Names, s \in RawNames}

\* A configuration of n workspaces with dependency relation d and mapping m.
GraphConfig(n, d, m) ==
  [i \in 1..n |->
     RawWorkspace(i, "", "rel", d[i],
                  IF m.w = i
                  THEN <<[sourceWorkspace |-> m.src, sourceOutput |-> OutName,
                          targetVar |-> <<"var", m.src>>]>>
                  ELSE <<>>,
                  <<>>)]

\* A configuration of two workspaces with the given names, kinds and dirs.
StructureConfig(nm, kd, dr) ==
  [i \in 1..2 |-> RawWorkspace(nm[i], kd[i], dr[i], <<>>, <<>>, <<>>)]

OperationNames == {"init", "validate", "plan", "apply", "destroy"}

OperationLists == UNION {[1..k -> OperationNames] : k \in 0..MaxOps}

\* A configuration of one workspace with the given operations list.
OperationConfig(ops) == <<RawWorkspace(1, "terraform", "rel", <<>>, <<>>, ops)>>

\* The extraVars a configuration file may carry for a workspace: none, or a
\* value for the variable the second workspace maps the first one's output to.
UserVars == {EmptyMap} \cup {[t \in {<<"var", 1>>} |-> v] : v \in JsonValues}

\* Two workspaces with the extraVars e, the second depending on the first and
\* taking its output as variable 1.
UserVarsConfig(e) ==
  [i \in 1..2 |->
     [RawWorkspace(i, "terraform", "rel",
                   IF i = 2 THEN <<1>> ELSE <<>>,
                   IF i = 2
                   THEN <<[sourceWorkspace |-> 1, sourceOutput |-> OutName,
                           targetVar |-> <<"var", 1>>]>>
                   ELSE <<>>,
                   <<>>)
      EXCEPT !.extraVars = e[i]]]

\* cfg is one of the raw configurations with at most maxN workspaces in the
\* dependency relation.
IsRawConfig(cfg, maxN) ==
  \/ \E n \in 0..maxN : \E d \in [1..n -> RawDependsOn], m \in RawInputs :
       m.w <= n /\ cfg = GraphConfig(n, d, m)
  \/ \E nm \in [1..2 -> 0..2], kd \in [1..2 -> {"", "terraform", "other"}],
        dr \in [1..2 -> {"", "rel"}] : cfg = StructureConfig(nm, kd, dr)
  \/ \E ops \in OperationLists : cfg = OperationConfig(ops)
  \/ maxN >= 2 /\ \E e \in [1..2 -> UserVars] : cfg = UserVarsConfig(e)

\* ------------------------------------------------------------ pure helpers
\* index[name] of ValidateInfrastructureConfig / CalculateDepths.
WsByName(cfg, name) == cfg[CHOOSE i \in DOMAIN cfg : cfg[i].name = name]

Max(S) == CHOOSE x \in S : \A y \in S : y <= x

\* --------------------------------------------------------------- validation
\* index[name] of a Go map: the zero WorkspaceConfig when the name is missing.
HasName(cfg, name) == \E i \in DOMAIN cfg : cfg[i].name = name

ZeroWorkspace == RawWorkspace(0, "", "", <<>>, <<>>, <<>>)

IndexLookup(cfg, name) == IF HasName(cfg, name) THEN WsByName(cfg, name) ELSE ZeroWorkspace

isSupportedKind(kind) == kind \in {"", "terraform"}

\* The first loop of ValidateInfrastructureConfig: names, dirs and kinds, in
\* the order of cfg.Workspaces; the first failing check is the error.
RECURSIVE IndexWorkspaces(_, _)
IndexWorkspaces(cfg, i) ==
  IF i > Len(cfg) THEN "ok"
  ELSE IF cfg[i].name = 0 THEN "empty-name"
  ELSE IF \E j \in 1..(i - 1) : cfg[j].name = cfg[i].name THEN "duplicate-name"
  ELSE IF cfg[i].dir = "" THEN "missing-dir"
  ELSE IF ~isSupportedKind(IF cfg[i].kind = "" THEN "terraform" ELSE cfg[i].kind)
       THEN "unsupported-kind"
  ELSE IndexWorkspaces(cfg, i + 1)

ValidateIndex(cfg) ==
  IF Len(cfg) = 0 THEN "no-workspaces" ELSE IndexWorkspaces(cfg, 1)

\* dfs of the cycle detection. st is [visiting, visited, err]; the walk stops at
\* the first name found in visiting.
RECURSIVE dfs(_, _, _)
RECURSIVE dfsDeps(_, _, _, _)
dfs(cfg, name, st) ==
  IF name \in st.visiting THEN [st EXCEPT !.err = "cycle"]
  ELSE IF name \in st.visited THEN st
  ELSE LET after == dfsDeps(cfg, IndexLookup(cfg, name).dependsOn, 1,
                            [st EXCEPT !.visiting = @ \cup {name}])
       IN IF after.err # "ok" THEN after
          ELSE [after EXCEPT !.visiting = @ \ {name}, !.visited = @ \cup {name}]

dfsDeps(cfg, deps, k, st) ==
  IF k > Len(deps) THEN st
  ELSE LET after == dfs(cfg, deps[k], st)
       IN IF after.err # "ok" THEN after ELSE dfsDeps(cfg, deps, k + 1, after)

RECURSIVE dfsAll(_, _, _)
dfsAll(cfg, i, st) ==
  IF i > Len(cfg) THEN st
  ELSE LET after == dfs(cfg, cfg[i].name, st)
       IN IF after.err # "ok" THEN after ELSE dfsAll(cfg, i + 1, after)

\* Mutant: only a workspace that lists itself is found.
DetectCycle_SelfOnly(cfg) ==
  IF \E i \in DOMAIN cfg : cfg[i].name \in SeqRange(cfg[i].dependsOn) THEN "cycle" ELSE "ok"

\* The cycle detection of ValidateInfrastructureConfig.
DetectCycle(cfg) == dfsAll(cfg, 1, [visiting |-> {}, visited |-> {}, err |-> "ok"]).err

\* Mutant: only direct dependencies count.
isTransitivelyDependent_DirectOnly(cfg, target, source) ==
  HasName(cfg, target) /\ source \in SeqRange(WsByName(cfg, target).dependsOn)

\* isTransitivelyDependent: unmemoised recursion over dependsOn.
RECURSIVE isTransitivelyDependent(_, _, _)
isTransitivelyDependent(cfg, target, source) ==
  /\ HasName(cfg, target)
  /\ LET deps == WsByName(cfg, target).dependsOn
     IN \E k \in DOMAIN deps :
          deps[k] = source \/ isTransitivelyDependent(cfg, deps[k], source)

\* The checks of one workspace in the third loop: its dependsOn entries, then
\* its input mappings.
RECURSIVE CheckDependsOn(_, _, _)
CheckDependsOn(cfg, ws, k) ==
  IF k > Len(ws.dependsOn) THEN "ok"
  ELSE IF ~HasName(cfg, ws.dependsOn[k]) THEN "unknown-dependency"
  ELSE IF ws.dependsOn[k] = ws.name THEN "self-dependency"
  ELSE CheckDependsOn(cfg, ws, k + 1)

RECURSIVE CheckInputs(_, _, _)
CheckInputs(cfg, ws, k) ==
  IF k > Len(ws.inputs) THEN "ok"
  ELSE IF ~HasName(cfg, ws.inputs[k].sourceWorkspace) THEN "unknown-source"
  ELSE IF ~isTransitivelyDependent(cfg, ws.name, ws.inputs[k].sourceWorkspace)
       THEN "not-dependent"
  ELSE CheckInputs(cfg, ws, k + 1)

RECURSIVE CheckDependencies(_, _)
CheckDependencies(cfg, i) ==
  IF i > Len(cfg) THEN "ok"
  ELSE LET depErr == CheckDependsOn(cfg, cfg[i], 1)
       IN IF depErr # "ok" THEN depErr
          ELSE LET inErr == CheckInputs(cfg, cfg[i], 1)
               IN IF inErr # "ok" THEN inErr ELSE CheckDependencies(cfg, i + 1)

\* The index (Go: from 0, -1 when absent) of the last occurrence of op.
LastIndex(operations, op) ==
  Max({-1} \cup {i - 1 : i \in {j \in DOMAIN operations : operations[j] = op}})

Has(operations, op) == \E i \in DOMAIN operations : operations[i] = op

validateTerraformOperations(operations) ==
  LET initIdx     == LastIndex(operations, "init")
      validateIdx == LastIndex(operations, "validate")
      planIdx     == LastIndex(operations, "plan")
      applyIdx    == LastIndex(operations, "apply")
  IN IF \E i \in DOMAIN operations :
          operations[i] \notin {"init", "validate", "plan", "apply"}
       THEN "unknown-operation"
     ELSE IF ~Has(operations, "init") THEN "init-required"
     ELSE IF ~Has(operations, "validate") THEN "validate-required"
     ELSE IF validateIdx < initIdx THEN "validate-before-init"
     ELSE IF Has(operations, "plan") /\ planIdx < validateIdx THEN "plan-before-validate"
     ELSE IF Has(operations, "apply") /\ ~Has(operations, "plan") THEN "apply-without-plan"
     ELSE IF Has(operations, "apply") /\ applyIdx < planIdx THEN "apply-before-plan"
     ELSE "ok"

ValidateWorkspaceOperations(ws) ==
  IF Len(ws.operations) = 0 THEN "ok"
  ELSE IF ws.kind \in {"", "terraform"} THEN validateTerraformOperations(ws.operations)
  ELSE "kind-not-implemented"

RECURSIVE CheckOperations(_, _)
CheckOperations(cfg, i) ==
  IF i > Len(cfg) THEN "ok"
  ELSE LET err == ValidateWorkspaceOperations(cfg[i])
       IN IF err # "ok" THEN err ELSE CheckOperations(cfg, i + 1)

\* ValidateInfrastructureConfig: the four parts in order, the first error wins.
ValidateInfrastructureConfig(cfg) ==
  LET indexErr == ValidateIndex(cfg)
  IN IF indexErr # "ok" THEN indexErr
     ELSE LET cycleErr == DetectCycle(cfg)
          IN IF cycleErr # "ok" THEN cycleErr
             ELSE LET depErr == CheckDependencies(cfg, 1)
                  IN IF depErr # "ok" THEN depErr ELSE CheckOperations(cfg, 1)

\* NormalizeInfrastructureConfig: default kind, dir joined to the base
\* directory, default operations.
NormalizeInfrastructureConfig(cfg) ==
  [i \in DOMAIN cfg |->
     [cfg[i] EXCEPT
        !.kind = IF @ = "" THEN "terraform" ELSE @,
        !.dir = IF @ = "rel" THEN "/base/rel" ELSE IF @ = "" THEN "/base" ELSE @,
        !.operations = IF Len(@) = 0
                       THEN (IF cfg[i].kind \in {"", "terraform"} THEN DefaultOperations
                             ELSE <<>>)
                       ELSE @]]

\* Mutant: the depth is one more than the depth of the first dependency.
RECURSIVE getDepth_FirstDependency(_, _)
getDepth_FirstDependency(cfg, name) ==
  LET ws == WsByName(cfg, name)
  IN IF Len(ws.dependsOn) = 0 THEN 0
     ELSE getDepth_FirstDependency(cfg, ws.dependsOn[1]) + 1

\* getDepth: 0 without dependencies, else 1 + the greatest depth of a dependency
\* (maxDepDepth starts at -1).
RECURSIVE getDepth(_, _)
getDepth(cfg, name) ==
  LET ws == WsByName(cfg, name)
  IN IF Len(ws.dependsOn) = 0 THEN 0
     ELSE Max({-1} \cup {getDepth(cfg, ws.dependsOn[k]) : k \in DOMAIN ws.dependsOn}) + 1

CalculateDepths(cfg) == [name \in {cfg[i].name : i \in DOMAIN cfg} |-> getDepth(cfg, name)]

\* Mutant: a workspace already started is not seen as running.
isRunning_Never(name, running) == FALSE

isRunning(name, running) == name \in running

\* Mutant: only the first dependency is tested.
allDependenciesMet_FirstOnly(ws, completed) ==
  Len(ws.dependsOn) = 0 \/ ws.dependsOn[1] \in completed

\* Mutant: readiness is not tested.
allDependenciesMet_Untested(ws, completed) == TRUE

allDependenciesMet(ws, completed) ==
  \A k \in DOMAIN ws.dependsOn : ws.dependsOn[k] \in completed

\* startWorkspace step 1: copy every present source output into extraVars, in the
\* order of ws.inputs; a later mapping overwrites an earlier one of the same target.
RECURSIVE ResolveFrom(_, _, _, _)
ResolveFrom(inputs, k, outputs, acc) ==
  IF k > Len(inputs) THEN acc
  ELSE LET mapping    == inputs[k]
           sourceOuts == outputs[mapping.sourceWorkspace]
       IN IF mapping.sourceOutput \in DOMAIN sourceOuts
          THEN ResolveFrom(inputs, k + 1, outputs,
                 [t \in DOMAIN acc \cup {mapping.targetVar} |->
                    IF t = mapping.targetVar THEN sourceOuts[mapping.sourceOutput]
                    ELSE acc[t]])
          ELSE ResolveFrom(inputs, k + 1, outputs, acc)

\* Mutant: the copied values are formatted as strings.
ResolveExtraVars_Stringified(ws, outputs) ==
  LET vars == IF Len(ws.inputs) > 0 THEN ResolveFrom(ws.inputs, 1, outputs, ws.extraVars)
              ELSE ws.extraVars
  IN [t \in DOMAIN vars |-> [type |-> "string", val |-> vars[t].val]]

ResolveExtraVars(ws, outputs) ==
  IF Len(ws.inputs) > 0 THEN ResolveFrom(ws.inputs, 1, outputs, ws.extraVars)
  ELSE ws.extraVars

\* startWorkspace step 2: the dependency with the greatest depth, the first of
\* them in dependsOn order (the scan replaces the host only on a greater depth).
RECURSIVE HostScan(_, _, _, _)
HostScan(deps, k, hostName, dpt) ==
  IF k > Len(deps) THEN hostName
  ELSE IF dpt[deps[k]] > dpt[hostName]
       THEN HostScan(deps, k + 1, deps[k], dpt)
       ELSE HostScan(deps, k + 1, hostName, dpt)

\* Mutant: the host is the first dependency, whatever the depths.
ChooseHost_FirstDependency(ws, dpt) == ws.dependsOn[1]

ChooseHost(ws, dpt) == HostScan(ws.dependsOn, 1, ws.dependsOn[1], dpt)

\* ------------------------------------------------------------------- state
VARIABLES
  config,               \* the validated, normalized InfrastructureConfig.Workspaces
  orchPc,               \* ParentWorkflow's position
  completedWorkspaces,  \* RunState.completed
  workspaceOutputs,     \* RunState.outputs
  outputWrites,         \* assignments to workspaceOutputs[name] so far, per name
  runningWorkflows,     \* RunState.running (names; the id is iac-<run>-<name>)
  rootFutures,          \* RunState.rootFutures (names)
  finishedChan,         \* workspace-finished signals delivered, not yet received
  toStart,              \* ready workspaces the signal handler has still to start
  shutdownLeft,         \* entries of runningWorkflows still to be sent shutdown
  awaitLeft,            \* root futures still to be awaited
  awaiting,             \* the root future the orchestrator is blocked on (0: none)
  firstErr,             \* 0 (nil) or the root whose error was observed first
  orchResult,           \* "none" | "ok" | "error"
  execPc,               \* TerraformWorkflow's position, per workspace
  execErr,              \* err of runTerraform, per workspace
  childChan,            \* start-child signals delivered to a host, not yet received
  shutdownChan,         \* shutdown signals delivered to an executor, not yet received
  activeChildren,       \* per executor
  childFutures,         \* child futures registered in a host's selector, unresolved
  shouldShutdown,       \* per executor
  launchedBy,           \* who executed each workspace's TerraformWorkflow, in order
                        \* (0: the orchestrator, else the host)
  received,             \* the extraVars each executor was started with
  finishedSent,         \* workspace-finished signals each executor has sent
  shutdownSent,         \* executors the orchestrator has sent shutdown to
  faults,               \* signal deliveries failed by the runtime so far
  opIdx,                \* runTerraform: index in ws.Operations of the next operation
  changesPresent,       \* runTerraform: the result of the last successful plan
  calls,                \* the activities invoked so far, with their results
  returned,             \* what TerraformWorkflow returned
  tfvarsFile,           \* the file at params.TFVars
  combinedFile,         \* the file combined.tfvars.json of the run
  planFile,             \* whether the plan file exists in params.Dir
  failures,             \* the errors of the failed attempts of the activity being
                        \* executed
  varFileRead           \* the -var-file contents the plans of executors that run
                        \* side by side were given, per workspace

vars == <<config, orchPc, completedWorkspaces, workspaceOutputs, outputWrites, runningWorkflows,
          rootFutures, finishedChan, toStart, shutdownLeft, awaitLeft, awaiting,
          firstErr, orchResult, execPc, execErr, childChan, shutdownChan,
          activeChildren, childFutures, shouldShutdown, launchedBy, received,
          finishedSent, shutdownSent, faults, opIdx, changesPresent, calls, returned,
          tfvarsFile, combinedFile, planFile, failures, varFileRead>>

\* The state of one executor's runTerraform and of the files its activities use.
runVars == <<opIdx, changesPresent, calls, returned, tfvarsFile, combinedFile, planFile,
            failures, varFileRead>>

orchVars == <<orchPc, completedWorkspaces, workspaceOutputs, outputWrites, runningWorkflows,
              rootFutures, toStart, shutdownLeft, awaitLeft, awaiting, firstErr,
              orchResult, shutdownSent>>

Workspaces == {config[i].name : i \in DOMAIN config}
depths == CalculateDepths(config)

\* An executor that has returned: its workflow is closed and its future resolved.
Closed(w) == execPc[w] \in {"failed", "done"}
\* An open workflow accepts signals.
Open(w) == execPc[w] \in {"running", "failing", "hosting"}

\* Nothing has run yet: the maps ParentWorkflow makes, no executor, no signal.
InitRunState ==
  /\ completedWorkspaces = {}
  /\ workspaceOutputs = [w \in Names |-> EmptyMap]
  /\ outputWrites = [w \in Names |-> 0]
  /\ runningWorkflows = {}
  /\ rootFutures = {}
  /\ finishedChan = <<>>
  /\ toStart = <<>>
  /\ shutdownLeft = {}
  /\ awaitLeft = {}
  /\ awaiting = 0
  /\ firstErr = 0
  /\ orchResult = "none"
  /\ execPc = [w \in Names |-> "idle"]
  /\ execErr = [w \in Names |-> "none"]
  /\ childChan = [w \in Names |-> <<>>]
  /\ shutdownChan = [w \in Names |-> 0]
  /\ activeChildren = [w \in Names |-> 0]
  /\ childFutures = [w \in Names |-> {}]
  /\ shouldShutdown = [w \in Names |-> FALSE]
  /\ launchedBy = [w \in Names |-> <<>>]
  /\ received = [w \in Names |-> EmptyMap]
  /\ finishedSent = [w \in Names |-> 0]
  /\ shutdownSent = {}
  /\ faults = 0

\* No tfvars file, no value of a variable file.
NoFile == [ext |-> "none", attrs |-> EmptyMap]
NotWritten == [written |-> FALSE, vars |-> EmptyMap]
NoResult == [outputs |-> EmptyMap, err |-> "none"]

\* runTerraform has not begun: changesPresent := false, no activity was invoked,
\* no file was written.
InitRunTerraform ==
  /\ opIdx = 1
  /\ changesPresent = FALSE
  /\ calls = <<>>
  /\ returned = NoResult
  /\ tfvarsFile = NoFile
  /\ combinedFile = NotWritten
  /\ planFile = FALSE
  /\ failures = <<>>
  /\ varFileRead = [w \in Names |-> <<>>]

\* ParentWorkflow after validation and normalization of a valid configuration.
Init ==
  /\ config \in ValidConfigs
  /\ orchPc = "start"
  /\ InitRunState
  /\ InitRunTerraform

\* ParentWorkflow is called with any configuration.
InitRaw ==
  /\ IsRawConfig(config, MaxWorkspaces)
  /\ orchPc = "validate"
  /\ InitRunState
  /\ InitRunTerraform

InitFull ==
  /\ IsRawConfig(config, MaxFullWorkspaces)
  /\ orchPc = "validate"
  /\ InitRunState
  /\ InitRunTerraform


\* ExecuteChildWorkflow(TerraformWorkflow, ws) by the orchestrator (by = 0) or by
\* a host: the executor of w starts with a fresh state and the given extraVars.
LaunchedPc(pcs, ws) == [w \in Names |-> IF w \in ws THEN "running" ELSE pcs[w]]

\* ------------------------------------------------------------ orchestrator
\* Mutant: a validation error is recorded and validation goes on.
ValidateNext_Continue(err, next) == next

\* if err := ValidateInfrastructureConfig(rawConfig); err != nil { return err }
ValidateNext(err, next) == IF err = "ok" THEN next ELSE "done"

\* One part of ValidateInfrastructureConfig has run with result err. After the
\* last part the accepted configuration is normalized.
ValidateStep(err, next) ==
  /\ orchPc' = ValidateNext(err, next)
  /\ orchResult' = IF err = "ok" THEN orchResult ELSE err
  /\ config' = IF err = "ok" /\ next = "start" THEN NormalizeInfrastructureConfig(config)
               ELSE config
  /\ UNCHANGED <<runVars, completedWorkspaces, workspaceOutputs, outputWrites, runningWorkflows,
                 rootFutures, finishedChan, toStart, shutdownLeft, awaitLeft, awaiting,
                 firstErr, execPc, execErr, childChan, shutdownChan, activeChildren,
                 childFutures, shouldShutdown, launchedBy, received, finishedSent,
                 shutdownSent, faults>>

OrchValidateIndex ==
  orchPc = "validate" /\ ValidateStep(ValidateIndex(config), "cycles")

OrchValidateCycles ==
  orchPc = "cycles" /\ ValidateStep(DetectCycle(config), "dependencies")

OrchValidateDependencies ==
  orchPc = "dependencies" /\ ValidateStep(CheckDependencies(config, 1), "operations")

OrchValidateOperations ==
  orchPc = "operations" /\ ValidateStep(CheckOperations(config, 1), "start")

\* Mutant: the loop waits for one more completion than there are workspaces.
LoopDone_OneMore(completed) == ~(Cardinality(completed) < Len(config) + 1)

\* Mutant: the loop ends with the first completion.
LoopDone_FirstCompletion(completed) == ~(Cardinality(completed) < 1)

\* The loop condition of ParentWorkflow and what follows the loop.
LoopDone(completed) == ~(Cardinality(completed) < Len(config))

AfterHandler(completed, running) ==
  IF LoopDone(completed)
  THEN /\ orchPc' = "shutdown"
       /\ shutdownLeft' = running
  ELSE /\ orchPc' = "loop"
       /\ UNCHANGED shutdownLeft

\* Mutant: the handler starts every workspace that is neither completed nor
\* running, ready or not.
ReadyWorkspaces_IgnoreDeps(completed, running) ==
  LET idx == SetToSeq({i \in DOMAIN config :
                         ~(config[i].name \in completed \/ config[i].name \in running)})
  IN [k \in DOMAIN idx |-> config[idx[k]].name]

\* The workspaces the signal handler starts, in the order of config.Workspaces.
ReadyWorkspaces(completed, running) ==
  LET ready(i) == /\ ~(config[i].name \in completed \/ isRunning(config[i].name, running))
                  /\ allDependenciesMet(config[i], completed)
      idx == SetToSeq({i \in DOMAIN config : ready(i)})
  IN [k \in DOMAIN idx |-> config[idx[k]].name]

\* Mutant: only the first workspace without dependencies is launched at startup.
RootWorkspaces_FirstOnly ==
  LET idx == {j \in DOMAIN config : Len(config[j].dependsOn) = 0}
  IN {config[i].name : i \in {j \in idx : \A k \in idx : j <= k}}

\* The workspaces the startup loop launches: len(ws.DependsOn) == 0.
RootWorkspaces ==
  {config[i].name : i \in {j \in DOMAIN config : Len(config[j].dependsOn) = 0}}

\* Startup: every workspace without dependencies becomes a direct child.
OrchStart ==
  /\ orchPc = "start"
  /\ LET roots == RootWorkspaces
     IN /\ execPc' = LaunchedPc(execPc, roots)
        /\ launchedBy' = [w \in Names |-> IF w \in roots THEN Append(launchedBy[w], 0)
                                          ELSE launchedBy[w]]
        /\ received' = [w \in Names |-> IF w \in roots THEN WsByName(config, w).extraVars
                                        ELSE received[w]]
        /\ rootFutures' = roots
        /\ runningWorkflows' = roots
        /\ AfterHandler({}, roots)
  /\ UNCHANGED <<runVars, config, outputWrites, completedWorkspaces, workspaceOutputs, finishedChan, toStart,
                 awaitLeft, awaiting, firstErr, orchResult, execErr, childChan,
                 shutdownChan, activeChildren, childFutures, shouldShutdown,
                 finishedSent, shutdownSent, faults>>

\* The handler of finishedChan up to its first startWorkspace.
OrchReceive ==
  /\ orchPc = "loop"
  /\ finishedChan # <<>>
  /\ LET signal    == Head(finishedChan)
         completed == completedWorkspaces \cup {signal.name}
         ready     == ReadyWorkspaces(completed, runningWorkflows)
     IN /\ finishedChan' = Tail(finishedChan)
        /\ completedWorkspaces' = completed
        /\ workspaceOutputs' = [workspaceOutputs EXCEPT ![signal.name] = signal.outputs]
        /\ outputWrites' = [outputWrites EXCEPT ![signal.name] = @ + 1]
        /\ toStart' = ready
        /\ IF ready # <<>>
           THEN orchPc' = "starting" /\ UNCHANGED shutdownLeft
           ELSE AfterHandler(completed, runningWorkflows)
  /\ UNCHANGED <<runVars, config, runningWorkflows, rootFutures, awaitLeft, awaiting, firstErr,
                 orchResult, execPc, execErr, childChan, shutdownChan, activeChildren,
                 childFutures, shouldShutdown, launchedBy, received, finishedSent,
                 shutdownSent, faults>>

\* What the handler does after one startWorkspace returned.
AfterStart(running) ==
  /\ toStart' = Tail(toStart)
  /\ IF Tail(toStart) # <<>>
     THEN orchPc' = "starting" /\ UNCHANGED shutdownLeft
     ELSE AfterHandler(completedWorkspaces, running)

\* startWorkspace, the start-child signal to the host is delivered: the workspace
\* is recorded in runningWorkflows and the host is to launch it.
OrchStartHosted ==
  /\ orchPc = "starting"
  /\ LET ws   == WsByName(config, Head(toStart))
         host == ChooseHost(ws, depths)
     IN /\ Len(ws.dependsOn) > 0
        /\ Open(host)
        /\ childChan' = [childChan EXCEPT ![host] =
                           Append(@, [name      |-> ws.name,
                                      extraVars |-> ResolveExtraVars(ws, workspaceOutputs)])]
        /\ runningWorkflows' = runningWorkflows \cup {ws.name}
        /\ AfterStart(runningWorkflows \cup {ws.name})
  /\ UNCHANGED <<runVars, config, outputWrites, completedWorkspaces, workspaceOutputs, rootFutures, finishedChan,
                 awaitLeft, awaiting, firstErr, orchResult, execPc, execErr,
                 shutdownChan, activeChildren, childFutures, shouldShutdown, launchedBy,
                 received, finishedSent, shutdownSent, faults>>

\* Mutant: the future of a fallback launch is not kept.
RecordRootFuture_Dropped(futures, name) == futures

\* rootFutures[ws.Name] = future
RecordRootFuture(futures, name) == futures \cup {name}

\* startWorkspace, no host or the start-child signal failed (the host has
\* returned, or the runtime failed the delivery): the workspace becomes a direct
\* child of the orchestrator.
OrchStartFallback ==
  /\ orchPc = "starting"
  /\ LET ws == WsByName(config, Head(toStart))
     IN /\ \/ Len(ws.dependsOn) = 0 /\ UNCHANGED faults
           \/ Len(ws.dependsOn) > 0 /\ ~Open(ChooseHost(ws, depths)) /\ UNCHANGED faults
           \/ Len(ws.dependsOn) > 0 /\ Open(ChooseHost(ws, depths))
                /\ faults < MaxFaults /\ faults' = faults + 1
        /\ execPc' = LaunchedPc(execPc, {ws.name})
        /\ launchedBy' = [launchedBy EXCEPT ![ws.name] = Append(@, 0)]
        /\ received' = [received EXCEPT ![ws.name] = ResolveExtraVars(ws, workspaceOutputs)]
        /\ rootFutures' = RecordRootFuture(rootFutures, ws.name)
        /\ runningWorkflows' = runningWorkflows \cup {ws.name}
        /\ AfterStart(runningWorkflows \cup {ws.name})
  /\ UNCHANGED <<runVars, config, outputWrites, completedWorkspaces, workspaceOutputs, finishedChan, awaitLeft,
                 awaiting, firstErr, orchResult, execErr, childChan, shutdownChan,
                 activeChildren, childFutures, shouldShutdown, finishedSent,
                 shutdownSent>>

\* The loop over rootFutures takes its next entry (Go map order: any entry).
NextFuture(left, name) == IF left = {} THEN name = 0 ELSE name \in left

\* After the last shutdown signal the orchestrator awaits the root futures.
AfterShutdown(left) ==
  IF left = {}
  THEN /\ orchPc' = "await"
       /\ awaitLeft' = rootFutures
       /\ \E name \in Names \cup {0} : NextFuture(rootFutures, name) /\ awaiting' = name
  ELSE UNCHANGED <<orchPc, awaitLeft, awaiting>>

\* One iteration of the shutdown loop (Go map order: any entry next); the signal
\* reaches an open executor.
OrchShutdownDelivered(id) ==
  /\ orchPc = "shutdown"
  /\ id \in shutdownLeft
  /\ Open(id)
  /\ shutdownChan' = [shutdownChan EXCEPT ![id] = @ + 1]
  /\ shutdownSent' = shutdownSent \cup {id}
  /\ shutdownLeft' = shutdownLeft \ {id}
  /\ AfterShutdown(shutdownLeft \ {id})
  /\ UNCHANGED <<runVars, config, outputWrites, completedWorkspaces, workspaceOutputs, runningWorkflows,
                 rootFutures, finishedChan, toStart, firstErr, orchResult,
                 execPc, execErr, childChan, activeChildren, childFutures,
                 shouldShutdown, launchedBy, received, finishedSent, faults>>

\* The shutdown signal fails (the executor has returned or was never started, or
\* the runtime failed the delivery); the error is logged and the loop goes on.
OrchShutdownFailed(id) ==
  /\ orchPc = "shutdown"
  /\ id \in shutdownLeft
  /\ \/ ~Open(id) /\ UNCHANGED faults
     \/ Open(id) /\ faults < MaxFaults /\ faults' = faults + 1
  /\ shutdownSent' = shutdownSent \cup {id}
  /\ shutdownLeft' = shutdownLeft \ {id}
  /\ AfterShutdown(shutdownLeft \ {id})
  /\ UNCHANGED <<runVars, config, outputWrites, completedWorkspaces, workspaceOutputs, runningWorkflows,
                 rootFutures, finishedChan, toStart, firstErr, orchResult,
                 execPc, execErr, childChan, shutdownChan, activeChildren, childFutures,
                 shouldShutdown, launchedBy, received, finishedSent>>

\* Mutant: the error of a root future is dropped.
ObserveErr_Dropped(first, name, pcs) == first

\* Mutant: every error of a root future replaces the one retained.
ObserveErr_LastWins(first, name, pcs) == IF pcs[name] = "failed" THEN name ELSE first

\* if err := future.Get(ctx, nil); err != nil { if firstErr == nil { firstErr = err } }
ObserveErr(first, name, pcs) ==
  IF pcs[name] = "failed" /\ first = 0 THEN name ELSE first

\* future.Get returns once the root executor has returned; the first error
\* stays, and the loop takes its next entry.
OrchFutureGet ==
  /\ orchPc = "await"
  /\ awaiting # 0
  /\ Closed(awaiting)
  /\ firstErr' = ObserveErr(firstErr, awaiting, execPc)
  /\ awaitLeft' = awaitLeft \ {awaiting}
  /\ \E name \in Names \cup {0} :
       NextFuture(awaitLeft \ {awaiting}, name) /\ awaiting' = name
  /\ UNCHANGED <<runVars, config, outputWrites, orchPc, completedWorkspaces, workspaceOutputs, runningWorkflows,
                 rootFutures, finishedChan, toStart, shutdownLeft, orchResult, execPc,
                 execErr, childChan, shutdownChan, activeChildren, childFutures,
                 shouldShutdown, launchedBy, received, finishedSent, shutdownSent, faults>>

\* ParentWorkflow returns firstErr, or nil.
OrchReturn ==
  /\ orchPc = "await"
  /\ awaiting = 0
  /\ awaitLeft = {}
  /\ orchPc' = "done"
  /\ orchResult' = IF firstErr # 0 THEN "error" ELSE "ok"
  /\ UNCHANGED <<runVars, config, outputWrites, completedWorkspaces, workspaceOutputs, runningWorkflows,
                 rootFutures, finishedChan, toStart, shutdownLeft, awaitLeft, awaiting,
                 firstErr, execPc, execErr, childChan, shutdownChan, activeChildren,
                 childFutures, shouldShutdown, launchedBy, received, finishedSent,
                 shutdownSent, faults>>


\* ---------------------------------------------------------------- executor
\* signalParent: the workspace-finished signal reaches the orchestrator.
SignalParentDelivered(w, outs) ==
  /\ orchPc # "done"
  /\ finishedChan' = Append(finishedChan, [name |-> w, outputs |-> outs])
  /\ finishedSent' = [finishedSent EXCEPT ![w] = @ + 1]

\* The errors runTerraform returns: a failed operation or a failed output capture.
RunErrors == {"op", "output"}

\* runTerraform returned (outputs, nil); signalParent(outputs); the executor
\* enters hosting mode.
ExecSucceed(w) ==
  /\ execPc[w] = "running"
  /\ \E outs \in OutputMaps : SignalParentDelivered(w, outs)
  /\ execPc' = [execPc EXCEPT ![w] = "hosting"]
  /\ UNCHANGED <<runVars, config, orchVars, execErr, childChan, shutdownChan, activeChildren,
                 childFutures, shouldShutdown, launchedBy, received, faults>>

\* runTerraform returned (nil, err); signalParent(nil) is called all the same,
\* before err is looked at.
ExecFail(w) ==
  /\ execPc[w] = "running"
  /\ \E e \in RunErrors : execErr' = [execErr EXCEPT ![w] = e]
  /\ SignalParentDelivered(w, EmptyMap)
  /\ execPc' = [execPc EXCEPT ![w] = "failing"]
  /\ UNCHANGED <<runVars, config, orchVars, childChan, shutdownChan, activeChildren,
                 childFutures, shouldShutdown, launchedBy, received, faults>>

\* signalParent fails: the error is logged and the executor goes on as above.
ExecSignalLost(w) ==
  /\ execPc[w] = "running"
  /\ faults < MaxFaults
  /\ faults' = faults + 1
  /\ \/ execPc' = [execPc EXCEPT ![w] = "hosting"] /\ UNCHANGED execErr
     \/ /\ execPc' = [execPc EXCEPT ![w] = "failing"]
        /\ \E e \in RunErrors : execErr' = [execErr EXCEPT ![w] = e]
  /\ UNCHANGED <<runVars, config, orchVars, finishedChan, finishedSent, childChan, shutdownChan,
                 activeChildren, childFutures, shouldShutdown, launchedBy, received>>

\* if err != nil { return nil, err }: the workflow closes as failed. Signals that
\* were delivered to it in the meantime are never read.
ExecReturnErr(w) ==
  /\ execPc[w] = "failing"
  /\ execPc' = [execPc EXCEPT ![w] = "failed"]
  /\ UNCHANGED <<runVars, config, orchVars, finishedChan, execErr, childChan, shutdownChan,
                 activeChildren, childFutures, shouldShutdown, launchedBy, received,
                 finishedSent, faults>>

\* Mutant: the hosting loop ends on shutdown although children are active.
HostingExit_ShutdownOnly(shutdown, active) == shutdown

\* The check after selector.Select in the hosting loop.
HostingExit(shutdown, active) == shutdown /\ active = 0

AfterSelect(h, shutdown, active) ==
  IF HostingExit(shutdown, active) THEN "done" ELSE "hosting"

\* The start-child handler: activeChildren++, the child is executed with the
\* workspace of the signal and its future is added to the selector.
HostStartChild(h) ==
  /\ execPc[h] = "hosting"
  /\ childChan[h] # <<>>
  /\ LET signal == Head(childChan[h])
     IN /\ childChan' = [childChan EXCEPT ![h] = Tail(@)]
        /\ activeChildren' = [activeChildren EXCEPT ![h] = @ + 1]
        /\ childFutures' = [childFutures EXCEPT ![h] = @ \cup {signal.name}]
        /\ execPc' = [LaunchedPc(execPc, {signal.name}) EXCEPT
                        ![h] = AfterSelect(h, shouldShutdown[h], activeChildren[h] + 1)]
        /\ launchedBy' = [launchedBy EXCEPT ![signal.name] = Append(@, h)]
        /\ received' = [received EXCEPT ![signal.name] = signal.extraVars]
  /\ UNCHANGED <<runVars, config, orchVars, finishedChan, execErr, shutdownChan, shouldShutdown,
                 finishedSent, faults>>

\* The shutdown handler: shouldShutdown = true.
HostShutdown(h) ==
  /\ execPc[h] = "hosting"
  /\ shutdownChan[h] > 0
  /\ shutdownChan' = [shutdownChan EXCEPT ![h] = @ - 1]
  /\ shouldShutdown' = [shouldShutdown EXCEPT ![h] = TRUE]
  /\ execPc' = [execPc EXCEPT ![h] = AfterSelect(h, TRUE, activeChildren[h])]
  /\ UNCHANGED <<runVars, config, orchVars, finishedChan, execErr, childChan, activeChildren,
                 childFutures, launchedBy, received, finishedSent, faults>>

\* The callback of a child future: activeChildren--; a child's error is logged.
HostChildDone(h, c) ==
  /\ execPc[h] = "hosting"
  /\ c \in childFutures[h]
  /\ Closed(c)
  /\ childFutures' = [childFutures EXCEPT ![h] = @ \ {c}]
  /\ activeChildren' = [activeChildren EXCEPT ![h] = @ - 1]
  /\ execPc' = [execPc EXCEPT ![h] = AfterSelect(h, shouldShutdown[h], activeChildren[h] - 1)]
  /\ UNCHANGED <<runVars, config, orchVars, finishedChan, execErr, childChan, shutdownChan,
                 shouldShutdown, launchedBy, received, finishedSent, faults>>

\* ------------------------------------------------------------ specification
Next ==
  \/ OrchStart
  \/ OrchReceive
  \/ OrchStartHosted
  \/ OrchStartFallback
  \/ \E id \in Names : OrchShutdownDelivered(id)
  \/ \E id \in Names : OrchShutdownFailed(id)
  \/ OrchFutureGet
  \/ OrchReturn
  \/ \E w \in Names : ExecSucceed(w)
  \/ \E w \in Names : ExecFail(w)
  \/ \E w \in Names : ExecSignalLost(w)
  \/ \E w \in Names : ExecReturnErr(w)
  \/ \E h \in Names : HostStartChild(h)
  \/ \E h \in Names : HostShutdown(h)
  \/ \E h, c \in Names : HostChildDone(h, c)

Spec == Init /\ [][Next]_vars


\* ValidateInfrastructureConfig and NormalizeInfrastructureConfig on any
\* configuration.
NextValidate ==
  \/ OrchValidateIndex
  \/ OrchValidateCycles
  \/ OrchValidateDependencies
  \/ OrchValidateOperations

SpecValidate == InitRaw /\ [][NextValidate]_vars

\* ParentWorkflow from its call with any configuration to its return.
NextFull == NextValidate \/ Next

SpecFull == InitFull /\ [][NextFull]_vars

\* The orchestration when every activity succeeds and every signal is delivered.
NextHappy ==
  \/ OrchStart
  \/ OrchReceive
  \/ OrchStartHosted
  \/ \E id \in Names : OrchShutdownDelivered(id)
  \/ OrchFutureGet
  \/ OrchReturn
  \/ \E w \in Names : ExecSucceed(w)
  \/ \E h \in Names : HostStartChild(h)
  \/ \E h \in Names : HostShutdown(h)
  \/ \E h, c \in Names : HostChildDone(h, c)

\* The runtime schedules every workflow that can take a step.
SpecHappy == Init /\ [][NextHappy]_vars /\ WF_vars(NextHappy)

\* -------------------------------------------------------------- activities
\* Largest exit code of the terraform binary that is told apart.
MaxExit == 3
\* Largest operations list a single executor is run with.
MaxRunOps == 3
\* Largest index of a variable name of a variable file.
MaxKey == 1

\* cmd.CombinedOutput(): the binary exits with a code, or it does not run to an
\* exit (err is no *exec.ExitError: the binary is missing, the context ended).
ToolRuns ==
  {[kind |-> "exit", code |-> c] : c \in 0..MaxExit} \cup {[kind |-> "noexit", code |-> 0]}

\* What an activity finds outside the workflow: whether validatePaths passes,
\* how the binary ends, whether the variable files can be read, parsed and
\* written, whether the binary wrote the file of -out, whether os.Stat and
\* os.WriteFile of the plan file work, whether the output is well-formed JSON.
Environments ==
  [pathsOk : BOOLEAN, tool : ToolRuns, mergeOk : BOOLEAN, wrote : BOOLEAN,
   statOk : BOOLEAN, writeOk : BOOLEAN, jsonOk : BOOLEAN]

\* What an activity depends on: the parts no code of the activity looks at are
\* left at TRUE.
EnvironmentsOf(activity) ==
  {env \in Environments :
     /\ activity # "plan" => (env.mergeOk /\ env.wrote /\ env.writeOk)
     /\ activity \notin {"plan", "apply"} => env.statOk
     /\ activity # "output" => env.jsonOk}

ExitedWith(env, code) == env.tool.kind = "exit" /\ env.tool.code = code

\* The activity failed before it came to run the binary.
NotRun == [kind |-> "notrun", code |-> 0]

\* The values of a variable file and of a runtime variable map: strings and
\* numbers, lists of val elements, null.
FileValues ==
  JsonValues \cup {[type |-> "list", val |-> n] : n \in 0..MaxVal}
             \cup {[type |-> "null", val |-> 0]}

VarKeys == {<<"var", k>> : k \in 0..MaxKey}

\* map[string]interface{} over the variable names, with values in V.
VarMaps(V) == UNION {[K -> V] : K \in SUBSET VarKeys}

\* ctyToGo: a string, number or null is lowered to the same Go value; the
\* elements of a list, set or tuple are appended to var result []interface{},
\* which stays a nil slice when there is no element.
ctyToGo(val) ==
  IF val.type = "list" /\ val.val = 0 THEN [type |-> "nilslice", val |-> 0] ELSE val

\* json.MarshalIndent of a value of the dictionary: a nil slice encodes as null.
MarshalValue(v) == IF v.type = "nilslice" THEN [type |-> "null", val |-> 0] ELSE v

\* The variables map after the file was parsed: json.Unmarshal for a .json
\* file, ParseHCLFile and ctyToGo per attribute otherwise.
ParseTFVars(file) ==
  IF file.ext = "none" THEN EmptyMap
  ELSE IF file.ext = "json" THEN file.attrs
  ELSE [k \in DOMAIN file.attrs |-> ctyToGo(file.attrs[k])]

\* Mutant: a value of the file wins over the runtime value of the same name.
MergeVars_FileWins(variables, runtime) ==
  [k \in DOMAIN variables \cup DOMAIN runtime |->
     IF k \in DOMAIN variables THEN variables[k] ELSE runtime[k]]

\* for key, value := range params.Vars { variables[key] = value }
MergeVars(variables, runtime) ==
  [k \in DOMAIN variables \cup DOMAIN runtime |->
     IF k \in DOMAIN runtime THEN runtime[k] ELSE variables[k]]

\* createCombinedTFVars: the path handed to -var-file and the combined file.
createCombinedTFVars(runtime, file, old, env) ==
  IF DOMAIN runtime = {}
  THEN [err |-> FALSE, path |-> IF file.ext = "none" THEN "" ELSE "original",
        combined |-> old]
  ELSE IF ~env.mergeOk
  THEN [err |-> TRUE, path |-> "", combined |-> old]
  ELSE LET merged == MergeVars(ParseTFVars(file), runtime)
       IN [err |-> FALSE, path |-> "combined",
           combined |-> [written |-> TRUE,
                         vars |-> [k \in DOMAIN merged |-> MarshalValue(merged[k])]]]

\* ensurePlanFile: nothing to do when the file exists, an empty file is written
\* when it does not, any other failure of os.Stat or os.WriteFile is an error.
ensurePlanFile(exists, env) ==
  IF ~env.statOk THEN [err |-> TRUE, exists |-> exists]
  ELSE IF exists THEN [err |-> FALSE, exists |-> TRUE]
  ELSE IF ~env.writeOk THEN [err |-> TRUE, exists |-> FALSE]
  ELSE [err |-> FALSE, exists |-> TRUE]

\* Mutant: every exit code of the binary other than 0 reports changes.
PlanReportsChanges_AnyNonZero(env) == env.tool.kind = "exit" /\ env.tool.code # 0

\* if exitErr.ExitCode() == 2
PlanReportsChanges(env) == ExitedWith(env, 2)

\* TerraformPlan: (changesPresent, err), the combined variable file and the plan
\* file it leaves behind.
TerraformPlan(runtime, file, old, exists, env) ==
  LET merge   == createCombinedTFVars(runtime, file, old, env)
      failed(t, c, e) ==
        [tool |-> t, ok |-> FALSE, changes |-> FALSE, combined |-> c, exists |-> e]
      onDisk  == exists \/ env.wrote
      ensured == ensurePlanFile(onDisk, env)
  IN IF ~env.pathsOk THEN failed(NotRun, old, exists)
     ELSE IF merge.err THEN failed(NotRun, old, exists)
     ELSE IF ExitedWith(env, 0) \/ PlanReportsChanges(env)
     THEN IF ensured.err THEN failed(env.tool, merge.combined, ensured.exists)
          ELSE [tool |-> env.tool, ok |-> TRUE, changes |-> ~ExitedWith(env, 0),
                combined |-> merge.combined, exists |-> TRUE]
     ELSE failed(env.tool, merge.combined, exists)

\* TerraformInit, TerraformValidate: validatePaths, then runTerraform of the
\* activities package, which fails unless the binary exits 0.
TerraformSimple(env) == env.pathsOk /\ ExitedWith(env, 0)

\* TerraformApply: validatePaths, os.Stat of the plan file, runTerraform.
TerraformApply(exists, env) == env.pathsOk /\ env.statOk /\ exists /\ ExitedWith(env, 0)

\* TerraformOutput: validatePaths, terraform output -json, json.Unmarshal.
TerraformOutput(env) == env.pathsOk /\ ExitedWith(env, 0) /\ env.jsonOk

\* ------------------------------------------------------ one executor's run
\* The WorkspaceConfig TerraformWorkflow is called with.
ExecWs == config[1]

\* info.ParentWorkflowExecution.ID or info.RootWorkflowExecution.ID; "" when the
\* workflow has neither.
orchestratorID == IF orchPc = "absent" THEN "" ELSE "orchestrator"

\* An activity that was invoked: how its binary ended and what Get returned.
Call(activity, tool, ok, changes, outs, cause) ==
  [activity |-> activity, tool |-> tool, ok |-> ok, changes |-> changes, outputs |-> outs,
   failures |-> IF ok THEN failures ELSE Append(failures, cause),
   cause |-> IF ok THEN "none" ELSE cause]

\* The run of the binary by an activity that runs it when ready holds.
ToolOf(env, ready) == IF ready THEN env.tool ELSE NotRun

\* Mutant: apply is executed whatever the plan reported.
SkipApply_Never(changes) == FALSE

\* if !changesPresent { ...; continue }
SkipApply(changes) == ~changes

\* Mutant: the error of an activity is dropped and the loop goes on.
ActivityFailed_Ignored(ok) == FALSE

\* if err := workflow.ExecuteActivity(...).Get(...); err != nil { return nil, ... }
ActivityFailed(ok) == ~ok

\* The loop goes on with the next operation.
RunContinues ==
  /\ opIdx' = opIdx + 1
  /\ UNCHANGED <<execPc, execErr>>

\* runTerraform returns (nil, err) or (outputs, err).
RunReturns(err) ==
  /\ execPc' = [execPc EXCEPT ![ExecWs.name] = "ran"]
  /\ execErr' = [execErr EXCEPT ![ExecWs.name] = err]
  /\ UNCHANGED opIdx

AfterActivity(ok) == IF ActivityFailed(ok) THEN RunReturns("op") ELSE RunContinues

\* RetryPolicy.MaximumAttempts of the activity options.
MaximumAttempts == 3

\* Mutant: a missing plan file and malformed JSON are in NonRetryableErrorTypes.
NonRetryable_Fatal(cause) == cause \in {"planfile", "json"}

\* NonRetryableErrorTypes: []string{}, and the activities return plain errors.
NonRetryable(cause) == FALSE

\* The runtime schedules another attempt of an activity that returned an error.
Retried(ok, cause) == ~ok /\ Len(failures) + 1 < MaximumAttempts /\ ~NonRetryable(cause)

\* An attempt of an activity has ended: it is retried, or Get returns and the
\* workflow goes on as after says.
AttemptEnds(call, after) ==
  IF Retried(call.ok, call.cause)
  THEN /\ failures' = Append(failures, call.cause)
       /\ UNCHANGED <<calls, opIdx, execPc, execErr>>
  ELSE /\ failures' = <<>>
       /\ calls' = Append(calls, call)
       /\ after

\* One iteration of the loop over ws.Operations in runTerraform.
RunTerraformOperation ==
  /\ execPc[ExecWs.name] = "running"
  /\ opIdx <= Len(ExecWs.operations)
  /\ LET op == ExecWs.operations[opIdx]
     IN CASE op \in {"init", "validate"} -> \E env \in EnvironmentsOf(op) :
                 /\ AttemptEnds(Call(op, ToolOf(env, env.pathsOk), TerraformSimple(env),
                                     FALSE, EmptyMap, "other"),
                                AfterActivity(TerraformSimple(env)))
                 /\ UNCHANGED <<changesPresent, combinedFile, planFile>>
            [] op = "plan" -> \E env \in EnvironmentsOf(op) :
                 LET r == TerraformPlan(received[ExecWs.name], tfvarsFile, combinedFile,
                                        planFile, env)
                 IN /\ AttemptEnds(Call(op, r.tool, r.ok, r.changes, EmptyMap, "other"),
                                   AfterActivity(r.ok))
                    /\ changesPresent' = IF r.ok THEN r.changes ELSE changesPresent
                    /\ combinedFile' = r.combined
                    /\ planFile' = r.exists
            [] op = "apply" ->
                 IF SkipApply(changesPresent)
                 THEN /\ RunContinues
                      /\ UNCHANGED <<calls, changesPresent, combinedFile, planFile, failures>>
                 ELSE \E env \in EnvironmentsOf(op) :
                      /\ AttemptEnds(Call(op,
                                          ToolOf(env, env.pathsOk /\ env.statOk /\ planFile),
                                          TerraformApply(planFile, env), FALSE, EmptyMap,
                                          IF env.pathsOk /\ ~(env.statOk /\ planFile)
                                          THEN "planfile" ELSE "other"),
                                     AfterActivity(TerraformApply(planFile, env)))
                      /\ UNCHANGED <<changesPresent, combinedFile, planFile>>
            [] OTHER ->
                 /\ RunReturns("op")
                 /\ UNCHANGED <<calls, changesPresent, combinedFile, planFile, failures>>
  /\ UNCHANGED <<returned, tfvarsFile, config, orchVars, finishedChan, childChan,
                 shutdownChan, activeChildren, childFutures, shouldShutdown, launchedBy,
                 received, finishedSent, faults, varFileRead>>

\* Mutant: outputs are fetched only when the list has operations.
OutputDue_NonEmptyList(i, operations) == i > Len(operations) /\ Len(operations) > 0

\* The loop over ws.Operations has ended.
OutputDue(i, operations) == i > Len(operations)

\* Always fetch outputs at the end: ExecuteActivity(a.TerraformOutput).Get(ctx,
\* &outputs); return outputs, err.
RunTerraformOutput ==
  /\ execPc[ExecWs.name] = "running"
  /\ OutputDue(opIdx, ExecWs.operations)
  /\ \E env \in EnvironmentsOf("output"), outs \in OutputMaps :
       AttemptEnds(Call("output", ToolOf(env, env.pathsOk), TerraformOutput(env), FALSE,
                        IF TerraformOutput(env) THEN outs ELSE EmptyMap,
                        IF env.pathsOk /\ ExitedWith(env, 0) THEN "json" ELSE "other"),
                   RunReturns(IF TerraformOutput(env) THEN "none" ELSE "output"))
  /\ UNCHANGED <<changesPresent, returned, tfvarsFile, combinedFile, planFile, config,
                 orchVars, finishedChan, childChan, shutdownChan, activeChildren,
                 childFutures, shouldShutdown, launchedBy, received, finishedSent, faults,
                 varFileRead>>

\* The outputs runTerraform returned: those of the output activity, nil
\* otherwise.
RunOutputs ==
  IF calls # <<>> /\ calls[Len(calls)].activity = "output" /\ calls[Len(calls)].ok
  THEN calls[Len(calls)].outputs
  ELSE EmptyMap

\* Mutant: a standalone executor signals like any other.
Standalone_Never(id) == FALSE

\* if orchestratorID == ""
Standalone(id) == id = ""

\* outputs, err := runTerraform(); signalParent(outputs); if err != nil { return
\* nil, err }; if orchestratorID == "" { return outputs, nil }; hosting mode.
\* A signal that fails is logged.
ExecAfterRun ==
  /\ execPc[ExecWs.name] = "ran"
  /\ IF Standalone(orchestratorID)
     THEN /\ UNCHANGED <<finishedChan, finishedSent, faults>>
          /\ IF execErr[ExecWs.name] # "none"
             THEN /\ execPc' = [execPc EXCEPT ![ExecWs.name] = "failed"]
                  /\ returned' = [outputs |-> EmptyMap, err |-> execErr[ExecWs.name]]
             ELSE /\ execPc' = [execPc EXCEPT ![ExecWs.name] = "done"]
                  /\ returned' = [outputs |-> RunOutputs, err |-> "none"]
     ELSE /\ \/ SignalParentDelivered(ExecWs.name, RunOutputs) /\ UNCHANGED faults
             \/ /\ faults < MaxFaults
                /\ faults' = faults + 1
                /\ UNCHANGED <<finishedChan, finishedSent>>
          /\ execPc' = [execPc EXCEPT  ![ExecWs.name] =
                          IF execErr[ExecWs.name] # "none" THEN "failing" ELSE "hosting"]
          /\ UNCHANGED returned
  /\ UNCHANGED <<opIdx, changesPresent, calls, tfvarsFile, combinedFile, planFile, failures, config,
                 orchVars, execErr, childChan, shutdownChan, activeChildren, childFutures,
                 shouldShutdown, launchedBy, received, varFileRead>>

\* if err != nil { return nil, err } after the signal of an orchestrated executor.
ExecReturnRunErr ==
  /\ execPc[ExecWs.name] = "failing"
  /\ execPc' = [execPc EXCEPT ![ExecWs.name] = "failed"]
  /\ returned' = [outputs |-> EmptyMap, err |-> execErr[ExecWs.name]]
  /\ UNCHANGED <<opIdx, changesPresent, calls, tfvarsFile, combinedFile, planFile, failures, config,
                 orchVars, finishedChan, execErr, childChan, shutdownChan, activeChildren,
                 childFutures, shouldShutdown, launchedBy, received, finishedSent, faults,
                 varFileRead>>

NextExec ==
  \/ RunTerraformOperation
  \/ RunTerraformOutput
  \/ ExecAfterRun
  \/ ExecReturnRunErr

RunLists == UNION {[1..k -> OperationNames] : k \in 0..MaxRunOps}

\* TerraformWorkflow has been started with the workspace ws and the runtime
\* variables runtime, standalone (orchPc = "absent") or as the direct child of an
\* orchestrator that is in its completion loop.
InitExecutor(ws, runtime, file) ==
  /\ config = <<[ws EXCEPT !.extraVars = runtime]>>
  /\ orchPc \in {"absent", "loop"}
  /\ completedWorkspaces = {}
  /\ workspaceOutputs = [w \in Names |-> EmptyMap]
  /\ outputWrites = [w \in Names |-> 0]
  /\ runningWorkflows = IF orchPc = "absent" THEN {} ELSE {ws.name}
  /\ rootFutures = IF orchPc = "absent" THEN {} ELSE {ws.name}
  /\ finishedChan = <<>>
  /\ toStart = <<>>
  /\ shutdownLeft = {}
  /\ awaitLeft = {}
  /\ awaiting = 0
  /\ firstErr = 0
  /\ orchResult = "none"
  /\ execPc = [w \in Names |-> IF w = ws.name THEN "running" ELSE "idle"]
  /\ execErr = [w \in Names |-> "none"]
  /\ childChan = [w \in Names |-> <<>>]
  /\ shutdownChan = [w \in Names |-> 0]
  /\ activeChildren = [w \in Names |-> 0]
  /\ childFutures = [w \in Names |-> {}]
  /\ shouldShutdown = [w \in Names |-> FALSE]
  /\ launchedBy = [w \in Names |-> IF w = ws.name /\ orchPc # "absent" THEN <<0>> ELSE <<>>]
  /\ received = [w \in Names |-> IF w = ws.name THEN runtime ELSE EmptyMap]
  /\ finishedSent = [w \in Names |-> 0]
  /\ shutdownSent = {}
  /\ faults = 0
  /\ opIdx = 1
  /\ changesPresent = FALSE
  /\ calls = <<>>
  /\ returned = NoResult
  /\ tfvarsFile = file
  /\ combinedFile = NotWritten
  /\ planFile = FALSE
  /\ failures = <<>>
  /\ varFileRead = [w \in Names |-> <<>>]

\* An executor with any operations list, no variable file and no runtime variable.
InitExec == \E ops \in RunLists : InitExecutor(OperationConfig(ops)[1], EmptyMap, NoFile)

SpecExec == InitExec /\ [][NextExec]_vars

\* The variable files: none, a .json file or a file of HCL attributes.
TFVarsFiles == {NoFile} \cup {[ext |-> e, attrs |-> m] : e \in {"json", "hcl"}, m \in VarMaps(FileValues)}

\* An executor that plans, with any variable file and any runtime variables (the
\* values of outputs).
InitPlan ==
  \E runtime \in VarMaps(JsonValues), file \in TFVarsFiles :
    InitExecutor(OperationConfig(<<"plan">>)[1], runtime, file)

SpecPlan == InitPlan /\ [][NextExec]_vars

\* ------------------------------------------------------------------ claims
DependsOn(w) == SeqRange(WsByName(config, w).dependsOn)
Inputs(w) == WsByName(config, w).inputs
Launched(w) == launchedBy[w] # <<>>
LaunchedByHost(w) == Launched(w) /\ launchedBy[w][1] # 0
ChildrenOf(h) == {c \in Names : h \in SeqRange(launchedBy[c])}
LoopExited == orchPc \in {"shutdown", "await", "done"}


\* C1: an executor is dispatched or launched only after the orchestrator has
\* processed the workspace-finished signal of every workspace it depends on.
C1_LaunchAfterDependencies ==
  \A w \in Workspaces :
    (Launched(w) \/ w \in runningWorkflows) => DependsOn(w) \subseteq completedWorkspaces

\* A workspace with two dependencies has been launched by its host.
C1_Witness ==
  \E w \in Workspaces : Cardinality(DependsOn(w)) >= 2 /\ LaunchedByHost(w)

\* C2: no workspace is launched twice, and once the completion loop has exited
\* every workspace has been launched exactly once.
C2_LaunchedExactlyOnce ==
  /\ \A w \in Names : Len(launchedBy[w]) <= 1
  /\ LoopExited => \A w \in Workspaces : Len(launchedBy[w]) = 1

\* An orchestration has returned after a launch by a host and a fallback launch.
C2_Witness ==
  /\ orchPc = "done"
  /\ \E w \in Workspaces : LaunchedByHost(w)
  /\ \E w \in Workspaces : DependsOn(w) # {} /\ launchedBy[w] = <<0>>

\* C3: an executor whose runTerraform returned an error sends no
\* workspace-finished signal.
C3_FailedExecutorNeverSignals ==
  \A w \in Names : execErr[w] # "none" => finishedSent[w] = 0

\* C4: an orchestration that has returned with a failed executor, whoever
\* launched it, has returned an error (also when every signal was delivered).
C4_AnyFailureIsReported ==
  (orchPc = "done" /\ faults = 0 /\ \E w \in Workspaces : execPc[w] = "failed") =>
    orchResult = "error"

\* C5: the orchestration returns success if and only if every executor whose
\* future is in rootFutures returned success.
C5_SuccessIffRootsSucceeded ==
  orchPc = "done" =>
    (orchResult = "ok" <=> \A r \in rootFutures : execPc[r] = "done")

\* An orchestration has returned an error with a failed and a successful root.
C5_Witness ==
  /\ orchPc = "done"
  /\ orchResult = "error"
  /\ \E r1, r2 \in rootFutures : execPc[r1] = "failed" /\ execPc[r2] = "done"

MappingPresent(w, k) ==
  Inputs(w)[k].sourceOutput \in DOMAIN workspaceOutputs[Inputs(w)[k].sourceWorkspace]

MappingValue(w, k) ==
  workspaceOutputs[Inputs(w)[k].sourceWorkspace][Inputs(w)[k].sourceOutput]

ReceivedMapping(w, k) ==
  /\ Inputs(w)[k].targetVar \in DOMAIN received[w]
  /\ received[w][Inputs(w)[k].targetVar] = MappingValue(w, k)

\* C6 as stated: every input mapping whose source output is present reaches the
\* executor as extraVars[targetVar], equal in value and type.
C6_EveryPresentMappingReceived ==
  \A w \in Workspaces : Launched(w) =>
    \A k \in DOMAIN Inputs(w) : MappingPresent(w, k) => ReceivedMapping(w, k)

\* A later mapping of the same workspace writes the same targetVar.
Overwritten(w, k) ==
  \E j \in DOMAIN Inputs(w) :
    j > k /\ Inputs(w)[j].targetVar = Inputs(w)[k].targetVar /\ MappingPresent(w, j)

\* C6 amended: a present mapping reaches the executor unchanged unless a later
\* present mapping of the workspace has the same targetVar, which then wins.
C6_LastPresentMappingReceived ==
  \A w \in Workspaces : Launched(w) =>
    \A k \in DOMAIN Inputs(w) :
      (MappingPresent(w, k) /\ ~Overwritten(w, k)) => ReceivedMapping(w, k)

\* A host has launched an executor that received a number from a workspace it
\* depends on only transitively.
C6_Witness ==
  \E w \in Workspaces : LaunchedByHost(w) /\
    \E k \in DOMAIN Inputs(w) :
      /\ MappingPresent(w, k) /\ ~Overwritten(w, k)
      /\ MappingValue(w, k).type = "number"
      /\ Inputs(w)[k].sourceWorkspace \notin DependsOn(w)

\* Without failures the start-child and shutdown signals always find their
\* target open, so that NextHappy leaves out no step of Next that could be taken.
HappyPathClosed ==
  /\ orchPc = "starting" => Open(ChooseHost(WsByName(config, Head(toStart)), depths))
  /\ orchPc = "shutdown" => \A id \in shutdownLeft : Open(id)

\* C7: when every activity succeeds and every signal is delivered, the completion
\* loop exits and the orchestration returns success, under fair scheduling.
C7_HappyOrchestrationSucceeds ==
  /\ []HappyPathClosed
  /\ <>(orchPc = "done" /\ orchResult = "ok")

\* A successful orchestration of two roots and a hosted dependent.
C7_Witness ==
  /\ orchPc = "done" /\ orchResult = "ok"
  /\ Cardinality(rootFutures) >= 2
  /\ \E w \in Workspaces : LaunchedByHost(w)

\* C8: after a root executor returned an error (and no signal delivery failed)
\* the orchestration has returned or can still take a step.
C8_RootFailureIsObserved ==
  (faults = 0 /\ \E r \in rootFutures : execPc[r] = "failed") =>
    (orchPc = "done" \/ ENABLED Next)

\* C9: a host has returned only if it received shutdown and every child it
\* launched has returned, and it does not stay in the hosting loop once shutdown
\* is received and no child is active.
C9_HostReturnsOnShutdownAndNoChild ==
  \A h \in Names :
    /\ execPc[h] = "done" =>
         /\ shouldShutdown[h]
         /\ activeChildren[h] = 0
         /\ \A c \in ChildrenOf(h) : Closed(c)
    /\ execPc[h] = "hosting" => ~(shouldShutdown[h] /\ activeChildren[h] = 0)

\* A host that launched a child has returned.
C9_Witness ==
  \E h \in Names : execPc[h] = "done" /\ ChildrenOf(h) # {}

\* C10: shutdown is sent only after the loop has exited with every workspace
\* completed, and by the time the root futures are awaited it has been sent to
\* every executor in runningWorkflows.
C10_ShutdownAfterLoopToAllRunning ==
  /\ shutdownSent # {} => (LoopExited /\ completedWorkspaces = Workspaces)
  /\ \A w \in Names : (shutdownChan[w] > 0 \/ shouldShutdown[w]) => w \in shutdownSent
  /\ orchPc \in {"await", "done"} => shutdownSent = runningWorkflows

\* The shutdown loop has ended and a hosted executor was sent shutdown.
C10_Witness ==
  orchPc = "await" /\ \E w \in shutdownSent : LaunchedByHost(w)

\* C11: the orchestration returns only when every future in rootFutures has
\* resolved; the error retained is the one of the first failed future whose Get
\* returned, no later error replaces it, and it is the error returned.
C11_AllRootsAwaitedFirstErrorKept ==
  /\ [](orchPc = "done" => /\ \A r \in rootFutures : Closed(r)
                           /\ (orchResult = "error") = (firstErr # 0))
  /\ [][/\ firstErr # 0 => firstErr' = firstErr
        /\ (orchPc = "await" /\ awaitLeft' # awaitLeft /\ firstErr = 0
              /\ execPc[awaiting] = "failed") => firstErr' = awaiting]_vars

\* An orchestration has returned an error after two root futures resolved with
\* an error and one resolved without.
C11_Witness ==
  /\ orchPc = "done" /\ orchResult = "error"
  /\ \E r1, r2, r3 \in rootFutures :
       /\ r1 # r2 /\ execPc[r1] = "failed" /\ execPc[r2] = "failed"
       /\ execPc[r3] = "done"

\* The workspaces whose outputs startWorkspace reads for workspace w.
SourcesRead(w) == {Inputs(w)[k].sourceWorkspace : k \in DOMAIN Inputs(w)}

\* C12: workspaceOutputs[w] is assigned at most once, and exactly once when w is
\* completed (the assignment is in the handler of w's workspace-finished
\* signal); startWorkspace reads only outputs of completed workspaces.
C12_OutputsWrittenOnceReadWhenCompleted ==
  /\ \A w \in Names : outputWrites[w] = (IF w \in completedWorkspaces THEN 1 ELSE 0)
  /\ \A w \in Names : w \notin completedWorkspaces => workspaceOutputs[w] = EmptyMap
  /\ orchPc = "starting" => SourcesRead(Head(toStart)) \subseteq completedWorkspaces

\* startWorkspace is about to read the outputs of two workspaces, one of them
\* not a direct dependency, and one of them has produced an output.
C12_Witness ==
  /\ orchPc = "starting"
  /\ Cardinality(SourcesRead(Head(toStart))) >= 2
  /\ SourcesRead(Head(toStart)) # DependsOn(Head(toStart))
  /\ \E src \in SourcesRead(Head(toStart)) : workspaceOutputs[src] # EmptyMap

\* The four states of a workspace. Readiness is allDependenciesMet.
Ready(w) == allDependenciesMet(WsByName(config, w), completedWorkspaces)
NotYetReady(w) == ~Ready(w)
ReadyNotStarted(w) == Ready(w) /\ w \notin runningWorkflows
ExactlyOne(flags) == Cardinality({k \in DOMAIN flags : flags[k]}) = 1

\* C13 as stated: every workspace is in exactly one of not-yet-ready,
\* ready-not-started, running (in RunState.running) and completed (in
\* RunState.completed).
C13_ExactlyOneStateByRecords ==
  \A w \in Workspaces :
    ExactlyOne(<<NotYetReady(w), ReadyNotStarted(w),
                 w \in runningWorkflows, w \in completedWorkspaces>>)

\* C13 amended: the entry of RunState.running is kept when the workspace
\* completes, so that the running state is "in running and not in completed";
\* with that reading every workspace is in exactly one of the four states.
C13_ExactlyOneStateRunningUntilCompleted ==
  \A w \in Workspaces :
    ExactlyOne(<<NotYetReady(w), ReadyNotStarted(w),
                 w \in runningWorkflows /\ w \notin completedWorkspaces,
                 w \in completedWorkspaces>>)

\* One workspace is completed and still recorded in running, one is running and
\* not completed, and one is ready and not started.
C13_Witness ==
  /\ \E w \in Workspaces : w \in completedWorkspaces /\ w \in runningWorkflows
  /\ \E w \in Workspaces : w \in runningWorkflows /\ w \notin completedWorkspaces
  /\ \E w \in Workspaces : ReadyNotStarted(w)

\* C14: before startup nothing is launched and no signal is processed; from
\* startup on every workspace with an empty dependsOn has been launched exactly
\* once, by the orchestrator, and is in rootFutures and in running; no
\* workspace-finished signal is processed before.
C14_RootsLaunchedAtStartupOnly ==
  /\ orchPc = "start" =>
       /\ \A w \in Names : launchedBy[w] = <<>> /\ outputWrites[w] = 0
       /\ completedWorkspaces = {}
  /\ orchPc # "start" =>
       \A w \in Workspaces : DependsOn(w) = {} =>
         /\ launchedBy[w] = <<0>>
         /\ w \in rootFutures
         /\ w \in runningWorkflows

\* An orchestration with two workspaces without dependencies has returned, a
\* workspace with dependencies was launched by a host in between.
C14_Witness ==
  /\ orchPc = "done"
  /\ Cardinality({w \in Workspaces : DependsOn(w) = {}}) >= 2
  /\ \E w \in Workspaces : LaunchedByHost(w)

\* h is the dependency of w with the greatest depth, the first such in the
\* order of dependsOn.
DeepestFirst(w, h) ==
  LET deps == WsByName(config, w).dependsOn
  IN \E k \in DOMAIN deps :
       /\ deps[k] = h
       /\ \A j \in DOMAIN deps : depths[deps[j]] <= depths[h]
       /\ \A j \in 1..(k - 1) : depths[deps[j]] < depths[h]

\* C15: every start-child signal for a workspace is sent to, and every hosted
\* workspace is launched by, the dependency of greatest depth, the first of
\* them in dependsOn order when several share it.
C15_HostIsDeepestFirstDependency ==
  /\ \A h \in Names : \A k \in DOMAIN childChan[h] : DeepestFirst(childChan[h][k].name, h)
  /\ \A w \in Workspaces : LaunchedByHost(w) => DeepestFirst(w, launchedBy[w][1])

\* A workspace was launched by a host that is not the first of its dependencies.
C15_Witness ==
  \E w \in Workspaces :
    /\ LaunchedByHost(w)
    /\ launchedBy[w][1] # WsByName(config, w).dependsOn[1]

\* A workspace with dependencies that the orchestrator launched itself: the
\* start-child signal to its host had failed.
FellBack(w) == DependsOn(w) # {} /\ launchedBy[w] = <<0>>

\* C16: a startWorkspace that does not deliver start-child to the host of a
\* workspace with dependencies launches the workspace as a child of the
\* orchestrator and records it in rootFutures and in running; the orchestration
\* returns only after that executor has returned, with an error if it failed.
C16_FailedStartChildFallsBackToRoot ==
  /\ [][(/\ orchPc = "starting"
          /\ toStart' # toStart
          /\ DependsOn(Head(toStart)) # {}
          /\ childChan' = childChan) =>
           (/\ launchedBy'[Head(toStart)] = <<0>>
            /\ execPc'[Head(toStart)] = "running"
            /\ Head(toStart) \in rootFutures'
            /\ Head(toStart) \in runningWorkflows')]_vars
  /\ [](\A w \in Workspaces : FellBack(w) =>
          /\ w \in rootFutures /\ w \in runningWorkflows
          /\ orchPc = "done" => /\ Closed(w)
                                /\ execPc[w] = "failed" => orchResult = "error")

\* An orchestration has returned an error after a workspace with dependencies,
\* launched by the orchestrator because start-child failed, returned an error.
C16_Witness ==
  /\ orchPc = "done" /\ orchResult = "error"
  /\ \E w \in Workspaces : FellBack(w) /\ execPc[w] = "failed" /\ firstErr = w

\* The dependsOn relation of a configuration, on the names of its workspaces.
DependsEdge(cfg, a, b) ==
  \E i \in DOMAIN cfg : cfg[i].name = a /\ b \in SeqRange(cfg[i].dependsOn)

\* There is a path of 1 to k dependsOn edges from a to b.
RECURSIVE PathWithin(_, _, _, _)
PathWithin(cfg, a, b, k) ==
  /\ k >= 1
  /\ \/ DependsEdge(cfg, a, b)
     \/ \E c \in RawNames : DependsEdge(cfg, a, c) /\ PathWithin(cfg, c, b, k - 1)

HasCycleWithin(cfg, k) == \E a \in RawNames : PathWithin(cfg, a, a, k)

HasCycle(cfg) == HasCycleWithin(cfg, Len(cfg))

ValidationPassedCycles == orchPc \in {"dependencies", "operations", "start"}

\* C17: no configuration whose dependsOn relation has a cycle gets past the
\* cycle detection, and a configuration with a workspace that lists itself,
\* its names, dirs and kinds being in order, is rejected with the cycle error.
C17_NoCycleAccepted ==
  /\ ValidationPassedCycles => ~HasCycle(config)
  /\ (orchPc = "done" /\ HasCycleWithin(config, 1) /\ ValidateIndex(config) = "ok") =>
       orchResult = "cycle"

\* A configuration whose only cycle has length 3 was rejected with the cycle
\* error.
C17_Witness ==
  /\ orchPc = "done" /\ orchResult = "cycle"
  /\ HasCycleWithin(config, 3) /\ ~HasCycleWithin(config, 2)

\* source is a workspace of cfg that w reaches through one or more dependsOn
\* edges.
ReachableDependency(cfg, w, source) ==
  /\ \E i \in DOMAIN cfg : cfg[i].name = source
  /\ PathWithin(cfg, w, source, Len(cfg))

AllMappingsReachable(cfg) ==
  \A i \in DOMAIN cfg : \A k \in DOMAIN cfg[i].inputs :
    ReachableDependency(cfg, cfg[i].name, cfg[i].inputs[k].sourceWorkspace)

\* C18: a configuration gets past the input mapping checks only if the source
\* of every mapping is a configured workspace its declaring workspace reaches
\* through dependsOn, and it is rejected for an input mapping only if the source
\* of some mapping is not.
C18_MappingAcceptedIffSourceReachable ==
  /\ orchPc \in {"operations", "start"} => AllMappingsReachable(config)
  /\ (orchPc = "done" /\ orchResult \in {"unknown-source", "not-dependent"}) =>
       ~AllMappingsReachable(config)

\* A configuration was accepted with a mapping whose source is reached through
\* two dependsOn edges and is not a direct dependency.
C18_Witness ==
  /\ orchPc = "start"
  /\ \E i \in DOMAIN config : \E k \in DOMAIN config[i].inputs :
       /\ config[i].inputs[k].sourceWorkspace \notin SeqRange(config[i].dependsOn)
       /\ ReachableDependency(config, config[i].name, config[i].inputs[k].sourceWorkspace)

\* No executor was launched and no signal was sent.
NothingExecuted ==
  /\ \A w \in Names :
       /\ launchedBy[w] = <<>> /\ execPc[w] = "idle"
       /\ finishedSent[w] = 0 /\ childChan[w] = <<>> /\ shutdownChan[w] = 0
  /\ finishedChan = <<>> /\ shutdownSent = {}
  /\ runningWorkflows = {} /\ rootFutures = {}

ValidationRejected == orchResult \notin {"none", "ok", "error"}

\* C19: while the configuration is validated nothing is executed, and when
\* validation rejects it ParentWorkflow has returned the validation error with
\* no executor launched and no signal sent.
C19_RejectedConfigExecutesNothing ==
  /\ orchPc \in {"validate", "cycles", "dependencies", "operations"} => NothingExecuted
  /\ ValidationRejected => (orchPc = "done" /\ NothingExecuted)

\* ParentWorkflow has returned the error of a configuration with a cycle of two
\* workspaces.
C19_Witness ==
  /\ orchPc = "done" /\ orchResult = "cycle"
  /\ Len(config) = 2 /\ ~HasCycleWithin(config, 1)

\* init is the first element, every validate has an init before it and every
\* plan has a validate before it.
InitValidatePlanOrdered(operations) ==
  /\ operations[1] = "init"
  /\ \A i \in DOMAIN operations : operations[i] = "validate" =>
       \E j \in 1..(i - 1) : operations[j] = "init"
  /\ \A i \in DOMAIN operations : operations[i] = "plan" =>
       \E j \in 1..(i - 1) : operations[j] = "validate"

\* C20: in a configuration that validation accepted every non-empty operations
\* list, with or without repeated entries, starts with init, has every validate
\* after init and every plan after validate.
C20_AcceptedOperationsOrdered ==
  orchPc = "start" =>
    \A i \in DOMAIN config :
      Len(config[i].operations) > 0 => InitValidatePlanOrdered(config[i].operations)

\* Every apply entry has a plan entry before it.
ApplyAfterPlan(operations) ==
  \A i \in DOMAIN operations : operations[i] = "apply" =>
    \E j \in 1..(i - 1) : operations[j] = "plan"

\* C21: in a configuration that validation accepted every apply entry of an
\* operations list has a plan entry earlier in the list.
C21_AcceptedApplyHasEarlierPlan ==
  orchPc = "start" => \A i \in DOMAIN config : ApplyAfterPlan(config[i].operations)

\* There is a chain of exactly k dependsOn edges that starts at workspace w.
RECURSIVE ChainFrom(_, _, _)
ChainFrom(cfg, w, k) ==
  k = 0 \/ \E d \in RawNames : DependsEdge(cfg, w, d) /\ ChainFrom(cfg, d, k - 1)

\* The length of the longest path from a workspace without dependencies to w.
LongestPath(cfg, w) == Max({k \in 0..Len(cfg) : ChainFrom(cfg, w, k)})

\* C22: for a validated configuration CalculateDepths gives 0 to a workspace
\* without dependencies, 1 + the greatest depth of a dependency to any other,
\* and that is the length of the longest path from a root to the workspace.
C22_DepthIsLongestPath ==
  orchPc = "start" =>
    \A i \in DOMAIN config :
      LET ws == config[i]
      IN /\ Len(ws.dependsOn) = 0 => depths[ws.name] = 0
         /\ Len(ws.dependsOn) > 0 =>
              depths[ws.name] = 1 + Max({depths[d] : d \in SeqRange(ws.dependsOn)})
         /\ depths[ws.name] = LongestPath(config, ws.name)

\* A validated configuration has a workspace of depth 2 whose first dependency
\* has depth 0.
C22_Witness ==
  /\ orchPc = "start"
  /\ \E i \in DOMAIN config :
       /\ Len(config[i].dependsOn) = 2
       /\ depths[config[i].name] = 2
       /\ depths[config[i].dependsOn[1]] = 0

\* The executor that is run, its operations list and its position.
RunPc == execPc[ExecWs.name]
RunErr == execErr[ExecWs.name]
RunOps == ExecWs.operations
CallsOf(activity) == {i \in DOMAIN calls : calls[i].activity = activity}

\* The plan invoked last before call i reported changes.
LastPlanReportedChanges(i) ==
  \E j \in 1..(i - 1) :
    /\ calls[j].activity = "plan"
    /\ calls[j].ok
    /\ calls[j].changes
    /\ \A k \in (j + 1)..(i - 1) : calls[k].activity # "plan"

\* C23: the apply activity is invoked only when the plan invoked last in the
\* same execution reported changesPresent = true; an apply that is skipped is
\* no failure: runTerraform returns an error at an apply operation only when
\* the apply activity was invoked and failed.
C23_ApplyOnlyAfterPlanWithChanges ==
  /\ \A i \in CallsOf("apply") : LastPlanReportedChanges(i)
  /\ (RunErr = "op" /\ RunOps[opIdx] = "apply") =>
       (calls # <<>> /\ calls[Len(calls)].activity = "apply" /\ ~calls[Len(calls)].ok)

\* The executor of plan, plan, apply has succeeded without an apply activity:
\* the first plan reported changes, the second one, the last before the apply
\* operation, reported none.
C23_Witness ==
  /\ RunOps = <<"plan", "plan", "apply">>
  /\ RunPc \in {"done", "hosting"}
  /\ RunErr = "none"
  /\ Len(calls) = 3
  /\ calls[1].activity = "plan" /\ calls[1].changes
  /\ calls[2].activity = "plan" /\ ~calls[2].changes
  /\ calls[3].activity = "output"

\* C24: the output activity is invoked only after the loop over the operations
\* has ended, it is the last activity, and it is invoked exactly once whenever
\* the loop ended without error, whatever the list: while runTerraform is
\* running at the end of the list the output activity can be invoked, and once
\* runTerraform has returned from there it has been invoked once.
C24_OutputOnceAfterLastOperation ==
  /\ CallsOf("output") \subseteq {Len(calls)}
  /\ CallsOf("output") # {} => opIdx > Len(RunOps)
  /\ (RunPc = "running" /\ opIdx > Len(RunOps)) =>
       (CallsOf("output") = {} /\ ENABLED RunTerraformOutput)
  /\ (RunPc # "running" /\ opIdx > Len(RunOps)) => Cardinality(CallsOf("output")) = 1

\* An executor with an empty operations list has returned its outputs after
\* the output activity, its only activity.
C24_Witness ==
  /\ RunOps = <<>>
  /\ RunPc \in {"done", "hosting"}
  /\ Len(calls) = 1
  /\ calls[1].activity = "output"
  /\ calls[1].ok

\* The activities cs[i..] other than output are those of operations[j..upto],
\* in order, where only apply operations are left out.
RECURSIVE InListOrder(_, _, _, _, _)
InListOrder(cs, i, operations, j, upto) ==
  IF j > upto THEN i > Len(cs) \/ cs[i].activity = "output"
  ELSE IF i <= Len(cs) /\ cs[i].activity = operations[j]
  THEN InListOrder(cs, i + 1, operations, j + 1, upto)
  ELSE operations[j] = "apply" /\ InListOrder(cs, i, operations, j + 1, upto)

KnownOperations == {"init", "validate", "plan", "apply"}

\* The operations the loop has gone through: those before opIdx, and the one at
\* opIdx when its activity failed.
Processed ==
  IF RunErr = "op" /\ RunOps[opIdx] \in KnownOperations THEN opIdx ELSE opIdx - 1

\* C25: the activities invoked are those of the operations list in the order
\* of the list; every activity but the last one invoked has succeeded; once an
\* activity has failed runTerraform has returned its error, nothing is invoked
\* after it, the executor neither hosts nor returns outputs, and what it returns
\* is the error.
C25_ActivitiesInListOrderStopAtFailure ==
  /\ InListOrder(calls, 1, RunOps, 1, Processed)
  /\ \A i \in DOMAIN calls : i < Len(calls) => calls[i].ok
  /\ (calls # <<>> /\ ~calls[Len(calls)].ok) =>
       /\ RunErr # "none"
       /\ RunPc \in {"ran", "failing", "failed"}
  /\ RunErr = "op" => CallsOf("output") = {}
  /\ RunPc \in {"hosting", "done"} => RunErr = "none"
  /\ RunPc = "failed" => returned = [outputs |-> EmptyMap, err |-> RunErr]

\* The plan of init, plan, apply has failed: the executor has returned the
\* error after two activities.
C25_Witness ==
  /\ RunOps = <<"init", "plan", "apply">>
  /\ RunPc = "failed"
  /\ returned.err = "op"
  /\ Len(calls) = 2
  /\ calls[1].ok
  /\ calls[2].activity = "plan" /\ ~calls[2].ok

\* C26: an executor without orchestrator sends no workspace-finished signal,
\* is never in the hosting loop nor between a signal and its return, and when
\* it has succeeded it has returned the outputs of its output activity, which
\* was its last activity.
C26_StandaloneReturnsOutputs ==
  orchestratorID = "" =>
    /\ finishedSent[ExecWs.name] = 0
    /\ finishedChan = <<>>
    /\ faults = 0
    /\ RunPc \notin {"hosting", "failing"}
    /\ RunPc = "done" =>
         /\ calls[Len(calls)].activity = "output"
         /\ calls[Len(calls)].ok
         /\ returned = [outputs |-> calls[Len(calls)].outputs, err |-> "none"]
    /\ RunPc \in {"running", "ran"} => returned = NoResult

\* A standalone executor has returned outputs that are not empty.
C26_Witness ==
  /\ orchestratorID = ""
  /\ RunPc = "done"
  /\ DOMAIN returned.outputs # {}
  /\ Len(RunOps) > 0

Exited(c, code) == c.tool.kind = "exit" /\ c.tool.code = code

\* The result of TerraformPlan in the current state when it meets env.
PlanOf(env) ==
  TerraformPlan(received[ExecWs.name], tfvarsFile, combinedFile, planFile, env)

\* The plan file is there after the binary has run, or an empty one is written.
PlanFileEnsured(env) == ~ensurePlanFile(planFile \/ env.wrote, env).err

\* C27 as stated: every plan whose binary exited 0 succeeded with
\* changesPresent = false, every plan whose binary exited 2 succeeded with
\* changesPresent = true, every plan whose binary exited with another code
\* failed.
C27_PlanResultByExitCode ==
  \A i \in CallsOf("plan") :
    /\ Exited(calls[i], 0) => (calls[i].ok /\ ~calls[i].changes)
    /\ Exited(calls[i], 2) => (calls[i].ok /\ calls[i].changes)
    /\ (calls[i].tool.kind = "exit" /\ calls[i].tool.code \notin {0, 2}) => ~calls[i].ok

\* C27, amended: a plan succeeds only when its binary exited 0 or 2, with
\* changesPresent = false after 0 and true after 2; after exit 0 or 2 the plan
\* succeeds exactly when ensurePlanFile does, and a plan that succeeded has left
\* a plan file.
C27_PlanResultByExitCodeAndPlanFile ==
  /\ \A i \in CallsOf("plan") :
       /\ calls[i].ok => (Exited(calls[i], 0) \/ Exited(calls[i], 2))
       /\ (calls[i].ok /\ Exited(calls[i], 0)) => ~calls[i].changes
       /\ (calls[i].ok /\ Exited(calls[i], 2)) => calls[i].changes
       /\ calls[i].ok => planFile
  /\ (RunPc = "running" /\ opIdx <= Len(RunOps) /\ RunOps[opIdx] = "plan") =>
     \A env \in EnvironmentsOf("plan") :
       LET r == PlanOf(env)
       IN /\ Exited(r, 0) => (r.ok <=> PlanFileEnsured(env)) /\ ~r.changes
          /\ Exited(r, 2) => (r.ok /\ r.changes) = PlanFileEnsured(env)
          /\ (~Exited(r, 0) /\ ~Exited(r, 2)) => ~r.ok

\* A plan whose binary exited 2 has reported changes and left a plan file.
C27_Witness ==
  /\ Len(calls) >= 1
  /\ calls[1].activity = "plan"
  /\ Exited(calls[1], 2)
  /\ calls[1].ok
  /\ calls[1].changes
  /\ planFile

\* C28: once createCombinedTFVars has merged, the combined file has the names
\* of the runtime map and of the variable file, every name of the runtime map
\* with its runtime value and every other name with the value of the file.
C28_CombinedIsFileOverriddenByRuntime ==
  combinedFile.written =>
    LET runtime == received[ExecWs.name]
    IN /\ DOMAIN combinedFile.vars = DOMAIN runtime \cup DOMAIN tfvarsFile.attrs
       /\ \A k \in DOMAIN runtime : combinedFile.vars[k] = runtime[k]
       /\ \A k \in DOMAIN tfvarsFile.attrs \ DOMAIN runtime :
            combinedFile.vars[k] = tfvarsFile.attrs[k]

\* No mapping of workspace w with the target of mapping k has its source output.
TargetUnresolved(w, k) ==
  \A j \in DOMAIN Inputs(w) :
    Inputs(w)[j].targetVar = Inputs(w)[k].targetVar => ~MappingPresent(w, j)

\* C29: a dispatched workspace has no extraVars[targetVar] when the source
\* output of the mapping, and of every other mapping with that target, is
\* absent from the outputs of its source workspace.
C29_AbsentSourceLeavesTargetUnset ==
  \A w \in Names : Launched(w) =>
    \A k \in DOMAIN Inputs(w) :
      TargetUnresolved(w, k) => Inputs(w)[k].targetVar \notin DOMAIN received[w]

\* Executor w comes out of signalParent without a workspace-finished signal
\* delivered: the signal has failed.
FinishedSignalFails(w) ==
  /\ execPc[w] = "running"
  /\ execPc'[w] # "running"
  /\ finishedSent'[w] = finishedSent[w]

\* The orchestrator goes through the shutdown of id without a signal delivered.
ShutdownSignalFails(id) ==
  /\ orchPc = "shutdown"
  /\ id \in shutdownLeft
  /\ id \notin shutdownLeft'
  /\ shutdownChan'[id] = shutdownChan[id]

\* C30: a workflow whose signal fails does not go on: an executor whose
\* workspace-finished signal fails does not enter the hosting loop, it is about
\* to return an error; an orchestrator whose shutdown signal fails returns with
\* an error.
C30_SignalErrorPropagates ==
  [][/\ \A w \in Names : FinishedSignalFails(w) => execPc'[w] = "failing"
     /\ \A id \in Names : ShutdownSignalFails(id) => (orchPc' = "done" /\ orchResult' = "error")
    ]_vars

Fatal == {"planfile", "json"}

\* C31: an apply that fails because the plan file is not found, and an output
\* that fails on malformed JSON, is not attempted again: such a failure is the
\* last attempt of its activity and the activity has failed; no activity is
\* attempted more than MaximumAttempts times; a failed activity is the
\* executor's failure.
C31_FatalFailuresNotRetried ==
  /\ \A k \in DOMAIN failures : failures[k] \notin Fatal
  /\ \A i \in DOMAIN calls :
       /\ \A k \in DOMAIN calls[i].failures :
            calls[i].failures[k] \in Fatal => k = Len(calls[i].failures)
       /\ Len(calls[i].failures) <= MaximumAttempts
       /\ ~calls[i].ok => RunErr # "none"

\* C32: the extraVars a dispatched workspace receives hold only keys that are
\* the targetVar of one of its input mappings; a workspace without
\* dependencies is dispatched with no extraVars, whatever the config held.
C32_ExtraVarsWrittenByOrchestratorOnly ==
  \A w \in Names : Launched(w) =>
    /\ \A key \in DOMAIN received[w] :
         \E k \in DOMAIN Inputs(w) : Inputs(w)[k].targetVar = key
    /\ (DependsOn(w) = {} => received[w] = EmptyMap)

\* C33: a workspace is dispatched only when the executor of every workspace it
\* depends on has come out of runTerraform without an error; no dependent is
\* started after one of its dependencies failed.
C33_DispatchedAfterSuccessfulDependencies ==
  \A w \in Workspaces :
    (Launched(w) \/ w \in runningWorkflows) =>
      \A d \in DependsOn(w) : execErr[d] = "none" /\ execPc[d] \in {"hosting", "done"}

\* C34: a start-child signal delivered to a host is not lost: no executor has
\* returned with a start-child signal still unread in its channel, so every
\* workspace recorded in runningWorkflows on a delivered start-child can still
\* be launched by its host.
C34_DeliveredStartChildNotLost ==
  \A h \in Names : Closed(h) => childChan[h] = <<>>

\* ------------------------------------------- signals from outside the run
\* The channel of ParentWorkflow takes a workspace-finished signal from any
\* sender that knows the workflow id, with any name in it. Here the sender
\* names a workspace that is unknown or not yet dispatched, each name at most
\* once.
ExternalWorkspaceFinished(name) ==
  /\ orchPc \in {"loop", "starting"}
  /\ ~Launched(name)
  /\ name \notin completedWorkspaces
  /\ \A k \in DOMAIN finishedChan : finishedChan[k].name # name
  /\ finishedChan' = Append(finishedChan, [name |-> name, outputs |-> EmptyMap])
  /\ UNCHANGED <<runVars, config, orchVars, execPc, execErr, childChan, shutdownChan,
                 activeChildren, childFutures, shouldShutdown, launchedBy, received,
                 finishedSent, faults>>

\* The orchestration of at most MaxSignalled workspaces, so that a name of no
\* workspace exists.
MaxSignalled == 2

InitSignals == Init /\ Len(config) <= MaxSignalled

NextSignals == Next \/ \E name \in Names : ExternalWorkspaceFinished(name)

SpecSignals == InitSignals /\ [][NextSignals]_vars

\* C35: the completion loop has exited only when every configured workspace
\* has been dispatched and has sent its workspace-finished signal, whatever
\* signals the orchestrator received.
C35_LoopExitsWhenAllSignalled ==
  LoopExited => \A w \in Workspaces : Launched(w) /\ finishedSent[w] >= 1

\* C36: when the orchestration has returned, every executor launched during
\* it, by the orchestrator or by a host, has returned; none is in its hosting
\* loop.
C36_ReturnedOrchestrationLeavesNoExecutor ==
  orchPc = "done" => \A w \in Names : Launched(w) => Closed(w)

\* An orchestration has returned after a host launched a child; the host was
\* told to shut down, and host and child have returned.
C36_Witness ==
  /\ orchPc = "done"
  /\ \E h, c \in Workspaces :
       /\ launchedBy[c] = <<h>>
       /\ shouldShutdown[h]
       /\ execPc[h] = "done" /\ execPc[c] = "done"

\* ------------------------------------------- plans of executors side by side
\* Every executor of an orchestration has params.RunID = the run id of the root
\* workflow, so createCombinedTFVars of each of them writes the same file
\* os.TempDir()/terraform-orchestrator/<RunID>/combined.tfvars.json: combinedFile.

\* TerraformPlan up to the start of the binary: validatePaths and
\* createCombinedTFVars. An attempt that fails and is retried changes nothing;
\* the last one makes runTerraform return the error.
PlanCreateCombined(w) ==
  /\ execPc[w] = "running"
  /\ \E env \in EnvironmentsOf("plan") :
       LET merge == createCombinedTFVars(received[w], tfvarsFile, combinedFile, env)
       IN IF ~env.pathsOk \/ merge.err
          THEN /\ execPc' = [execPc EXCEPT ![w] = "ran"]
               /\ execErr' = [execErr EXCEPT ![w] = "op"]
               /\ UNCHANGED combinedFile
          ELSE /\ execPc' = [execPc EXCEPT ![w] = "planning"]
               /\ combinedFile' = merge.combined
               /\ UNCHANGED execErr
  /\ UNCHANGED <<opIdx, changesPresent, calls, returned, tfvarsFile, planFile, failures,
                 varFileRead, config, orchVars, finishedChan, childChan, shutdownChan,
                 activeChildren, childFutures, shouldShutdown, launchedBy, received,
                 finishedSent, faults>>

\* What the binary finds at the path of -var-file when it runs.
VarFileAt(path) ==
  IF path = "combined" THEN combinedFile
  ELSE IF path = "original" THEN [written |-> TRUE, vars |-> tfvarsFile.attrs]
  ELSE NotWritten

\* cmd.CombinedOutput() of TerraformPlan: the binary reads the file of -var-file.
PlanRunTerraform(w) ==
  /\ execPc[w] = "planning"
  /\ LET path == IF DOMAIN received[w] # {} THEN "combined"
                 ELSE IF tfvarsFile.ext = "none" THEN "" ELSE "original"
     IN varFileRead' = [varFileRead EXCEPT ![w] = Append(@, VarFileAt(path))]
  /\ execPc' = [execPc EXCEPT ![w] = "planned"]
  /\ UNCHANGED <<opIdx, changesPresent, calls, returned, tfvarsFile, combinedFile, planFile,
                 failures, config, orchVars, finishedChan, execErr, childChan, shutdownChan,
                 activeChildren, childFutures, shouldShutdown, launchedBy, received,
                 finishedSent, faults>>

\* The number of executors that plan side by side.
MaxConcurrent == 2

\* The orchestrator is in its completion loop and has launched MaxConcurrent
\* workspaces without dependencies, each with runtime variables of its own; no
\* workspace has a variable file.
InitConcurrent ==
  \E e \in [1..MaxConcurrent -> VarMaps(JsonValues)] :
    LET none == [i \in 1..MaxConcurrent |-> <<>>]
        ran  == 1..MaxConcurrent
    IN /\ config = [i \in ran |-> [MkConfig(MaxConcurrent, none, FALSE)[i] EXCEPT
                                      !.operations = <<"plan">>, !.extraVars = e[i]]]
       /\ orchPc = "loop"
       /\ completedWorkspaces = {}
       /\ workspaceOutputs = [w \in Names |-> EmptyMap]
       /\ outputWrites = [w \in Names |-> 0]
       /\ runningWorkflows = ran
       /\ rootFutures = ran
       /\ finishedChan = <<>>
       /\ toStart = <<>>
       /\ shutdownLeft = {}
       /\ awaitLeft = {}
       /\ awaiting = 0
       /\ firstErr = 0
       /\ orchResult = "none"
       /\ execPc = [w \in Names |-> IF w \in ran THEN "running" ELSE "idle"]
       /\ execErr = [w \in Names |-> "none"]
       /\ childChan = [w \in Names |-> <<>>]
       /\ shutdownChan = [w \in Names |-> 0]
       /\ activeChildren = [w \in Names |-> 0]
       /\ childFutures = [w \in Names |-> {}]
       /\ shouldShutdown = [w \in Names |-> FALSE]
       /\ launchedBy = [w \in Names |-> IF w \in ran THEN <<0>> ELSE <<>>]
       /\ received = [w \in Names |-> IF w \in ran THEN e[w] ELSE EmptyMap]
       /\ finishedSent = [w \in Names |-> 0]
       /\ shutdownSent = {}
       /\ faults = 0
       /\ InitRunTerraform

NextConcurrent ==
  \/ \E w \in Names : PlanCreateCombined(w)
  \/ \E w \in Names : PlanRunTerraform(w)

SpecConcurrent == InitConcurrent /\ [][NextConcurrent]_vars

\* The combined variable file of workspace w alone: its variable file
\* overridden by its runtime variables.
OwnCombined(w) ==
  LET merged == MergeVars(ParseTFVars(tfvarsFile), received[w])
  IN [written |-> TRUE, vars |-> [k \in DOMAIN merged |-> MarshalValue(merged[k])]]

\* C37: the plan of a workspace with runtime variables, run while another
\* workspace of the orchestration plans, reads a combined variable file that
\* holds exactly its own merged variables.
C37_PlanReadsOwnCombinedFile ==
  \A w \in Names : \A k \in DOMAIN varFileRead[w] :
    DOMAIN received[w] # {} => varFileRead[w][k] = OwnCombined(w)

\* C38: NormalizeInfrastructureConfig preserves validity: a configuration that
\* ValidateInfrastructureConfig accepts is accepted after normalization too, as
\* handed over by the caller and as the orchestrator holds it.
C38_NormalizePreservesValidity ==
  ValidateInfrastructureConfig(config) = "ok" =>
    ValidateInfrastructureConfig(NormalizeInfrastructureConfig(config)) = "ok"

\* A configuration with a dependency, an input mapping and no kind, dir base or
\* operations of its own has been accepted and normalized.
C38_Witness ==
  /\ orchPc = "start"
  /\ ValidateInfrastructureConfig(config) = "ok"
  /\ \E i \in DOMAIN config :
       /\ Len(config[i].dependsOn) > 0 /\ Len(config[i].inputs) > 0
       /\ config[i].kind = "terraform" /\ config[i].dir = "/base/rel"
       /\ config[i].operations = DefaultOperations

\* Some dependsOn entry of cfg names no workspace of cfg.
HasUnknownDependency(cfg) ==
  \E i \in DOMAIN cfg : \E k \in DOMAIN cfg[i].dependsOn : ~HasName(cfg, cfg[i].dependsOn[k])

\* C39: ValidateInfrastructureConfig comes to a result on every configuration,
\* an error when dependsOn has a cycle or an unknown entry; the dependency
\* checks (isTransitivelyDependent) and CalculateDepths are reached only with
\* a dependency relation without a cycle.
C39_ValidationEndsRecursionOnAcyclicOnly ==
  /\ (HasCycle(config) \/ HasUnknownDependency(config)) =>
       ValidateInfrastructureConfig(config) # "ok"
  /\ orchPc \in {"dependencies", "operations", "start"} => ~HasCycle(config)
  /\ orchPc = "start" => \A w \in Workspaces : depths[w] \in 0..(Len(config) - 1)

\* Validation has ended with the cycle error on a configuration whose
\* dependsOn has a cycle and an unknown entry.
C39_Witness ==
  /\ orchPc = "done"
  /\ orchResult = "cycle"
  /\ HasCycle(config)
  /\ HasUnknownDependency(config)
====
